---- MODULE Spec2Model ----
(***************************************************************************)
(* The obligations reuse index of scripts/sc/_obligations_reuse_index.py:  *)
(* a JSON index file that maps a lookup key to the summary/verdict files   *)
(* of an earlier successful run, guarded by an exclusive-create lock file. *)
(*                                                                         *)
(* Spec      one caller at a time: remember_reusable_ok_result_with_stats  *)
(*           and find_reusable_ok_result_with_stats run as whole calls     *)
(*           against a file system that other parties edit between calls. *)
(* PruneSpec one caller that fills the index with more keys than the caps  *)
(*           admit while entries age and result directories disappear.     *)
(* ConcSpec  two processes that interleave at the level of the system      *)
(*           calls of _acquire_reuse_lock, _load_reuse_index,              *)
(*           _write_reuse_index and _release_reuse_lock.                   *)
(*                                                                         *)
(* Time is counted in coarse ticks.  The limits of the source (timeout     *)
(* 5 s, stale lock 120 s, retention 14 days, 20 entries per task, 800      *)
(* entries in total) are scaled down to values the key space of the model  *)
(* can exceed; their order (sleep < timeout < stale age) is kept.          *)
(***************************************************************************)
EXTENDS Integers, Sequences, FiniteSets, TLC

---------------------------------------------------------------------------
\* Bounds of the model.

\* Calls of the single caller per run; each call reads a later value of
\* the clock than the call before it.
MaxCalls == 2
\* File edits made by other parties (tampering, deletion, damage) per run.
MaxFaults == 1
\* The last value of the clock in the runs that fill the index.
MaxPruneTime == 5
\* The calls that remember a result in the runs that ask for an explanation.
MaxExplainTime == 3
\* REUSE_INDEX_LOCK_TIMEOUT_SEC counted in sleeps of the retry loop
\* (5 s / 0.05 s = 100 in the source).
REUSE_INDEX_LOCK_TIMEOUT_SLEEPS == 2
\* REUSE_INDEX_STALE_LOCK_SEC in ticks (120 s in the source).
REUSE_INDEX_STALE_LOCK_TICKS == 1
\* REUSE_INDEX_RETENTION_DAYS in ticks (14 days in the source).
REUSE_INDEX_RETENTION_TICKS == 3
\* REUSE_INDEX_MAX_ENTRIES_PER_TASK (20 in the source).
REUSE_INDEX_MAX_ENTRIES_PER_TASK == 2
\* REUSE_INDEX_MAX_TOTAL_ENTRIES (800 in the source).
REUSE_INDEX_MAX_TOTAL_ENTRIES == 3

\* time.sleep(0.05): milliseconds per sleep of the retry loop.
SleepMs == 50

---------------------------------------------------------------------------
\* Values.

\* Task ids are digit strings: "1" and "11".
Tasks == {<<"1">>, <<"1", "1">>}
Hashes == {"h1", "h2"}
Versions == {"v1", "v2"}
Profiles == {"host-safe"}

\* The logs root a call is given: the logs directory, or a path that
\* exists as a regular file.
LogsRoots == {"logs", "notadir"}

\* Result directories below the logs root.  DirSuffix is what follows
\* "sc-llm-obligations-task-" in the directory's name.
Dirs == {"dA", "dB"}
DirSuffix(d) == IF d = "dA" THEN <<"1">> ELSE <<"1", "1">>
\* An output directory that holds no files yet.
NewDir == "dNew"

Max2(a, b) == IF a >= b THEN a ELSE b
Min2(a, b) == IF a <= b THEN a ELSE b

---------------------------------------------------------------------------
\* State.

VARIABLES
    now,        \* the wall clock, in ticks
    index,      \* the index file: [kind, entries]
    lock,       \* the lock file: [present, owner, mtime]
    summary,    \* summary.json of each result directory
    verdict,    \* verdict.json of each result directory
    mtime,      \* modification time of each verdict.json
    faults,     \* edits made by other parties so far
    ret,        \* the call that returned last, and what it returned
    procs,      \* the processes of ConcSpec: where each is in its call
    hashes,     \* the input hash each process built last, and from what
    tmp,        \* the temp files of _write_reuse_index in ConcSpec
    rounds,     \* the call of run_consensus_rounds and where it stands
    guard       \* the last call of apply_deterministic_guards

fsVars == <<index, lock, summary, verdict, mtime>>
vars == <<now, index, lock, summary, verdict, mtime, faults, ret, procs, hashes, tmp, rounds, guard>>

NoLock == [present |-> FALSE, owner |-> "none", mtime |-> 0]
AbsentIndex == [kind |-> "absent", entries |-> <<>>]
NoSummary == [kind |-> "absent", status |-> "", input_hash |-> ""]
NoVerdictObj == [dir |-> "-", form |-> "absent"]

---------------------------------------------------------------------------
\* Keys and paths.

\* "|".join of the four stripped components.  The components of the model
\* hold no "|" and no outer blanks, so the joined string is the tuple.
MakeReuseKey(task_id, input_hash, prompt_version, security_profile) ==
    <<task_id, input_hash, prompt_version, security_profile>>

\* A path is <<root, dir, name>>; relative to its logs root it is
\* <<dir, name>>.
SummaryPathOf(d) == <<"logs", d, "summary.json">>
VerdictPathOf(d) == <<"logs", d, "verdict.json">>
OutDir(d) == <<"logs", d>>

ToIndexPath(path, logs_root) ==
    IF path[1] = logs_root THEN <<path[2], path[3]>> ELSE path

FromIndexPath(path_text, logs_root) ==
    IF Len(path_text) = 3 THEN path_text ELSE <<logs_root>> \o path_text

PathParent(path) == <<path[1], path[2]>>
PathDir(path) == path[2]

\* Path.exists() of a summary.json or verdict.json.
PathExists(path) ==
    /\ path[1] = "logs"
    /\ IF path[3] = "summary.json"
       THEN summary[path[2]].kind # "absent"
       ELSE verdict[path[2]] # "absent"

\* logs_root.exists(): both roots of the model exist (one as a file).
RootExists(logs_root) == logs_root \in LogsRoots

\* Whether Path.mkdir(parents=True, exist_ok=True) raises: it does when the
\* path exists and is no directory.
MkdirRaises(logs_root) == logs_root = "notadir"

---------------------------------------------------------------------------
\* _load_reuse_index.

\* The index file is absent, holds no JSON ("garbage"), holds JSON that is
\* no object ("nondict": a list, a string, a number, null), holds an
\* object without an "entries" object ("noentries"), or holds an index.
IndexKinds == {"absent", "garbage", "nondict", "noentries", "ok"}

\* path.exists() of the index file below the given logs root.
IndexFileExists(idx, logs_root) == logs_root = "logs" /\ idx.kind # "absent"

\* What _load_reuse_index does: [raised, entries].  A missing file and a
\* json.loads failure give the empty index; obj.get("entries") on a parsed
\* value that is no dict raises AttributeError outside the try block; an
\* "entries" value that is no dict is replaced by {}.
LoadReuseIndex(idx, logs_root) ==
    IF ~IndexFileExists(idx, logs_root)
    THEN [raised |-> FALSE, entries |-> <<>>]
    ELSE IF idx.kind = "garbage"
    THEN [raised |-> FALSE, entries |-> <<>>]
    ELSE IF idx.kind = "nondict"
    THEN [raised |-> TRUE, entries |-> <<>>]
    ELSE IF idx.kind = "noentries"
    THEN [raised |-> FALSE, entries |-> <<>>]
    ELSE [raised |-> FALSE, entries |-> idx.entries]

---------------------------------------------------------------------------
\* _acquire_reuse_lock and _release_reuse_lock, run by a single caller.

\* A staleness test that wants the age beyond the threshold.
IsStale_Beyond(lk, t) == t - lk.mtime > REUSE_INDEX_STALE_LOCK_TICKS

IsStale(lk, t) == t - lk.mtime >= REUSE_INDEX_STALE_LOCK_TICKS

\* The retry loop after e sleeps: [fd, waited, lock].  os.open with
\* O_CREAT | O_EXCL succeeds when no lock file exists; on FileExistsError a
\* stale lock file is unlinked, and the loop sleeps and tries again until
\* the deadline.  A call is short against one tick of the clock.
RECURSIVE AcquireLoop(_, _, _)
AcquireLoop(lk, t, e) ==
    IF ~(e < REUSE_INDEX_LOCK_TIMEOUT_SLEEPS)
    THEN [fd |-> FALSE, waited |-> e, lock |-> lk]
    ELSE IF ~lk.present
    THEN [fd |-> TRUE, waited |-> e,
          lock |-> [present |-> TRUE, owner |-> "self", mtime |-> t]]
    ELSE AcquireLoop(IF IsStale(lk, t) THEN NoLock ELSE lk, t, e + 1)

\* _acquire_reuse_lock as a whole: [raised, fd, wait_ms, lock].
AcquireReuseLock(lk, t, logs_root) ==
    IF MkdirRaises(logs_root)
    THEN [raised |-> TRUE, fd |-> FALSE, wait_ms |-> 0, lock |-> lk]
    ELSE LET r == AcquireLoop(lk, t, 0)
         IN [raised |-> FALSE, fd |-> r.fd,
             wait_ms |-> r.waited * SleepMs, lock |-> r.lock]

\* _release_reuse_lock: nothing without a handle, else close and unlink.
ReleaseReuseLock(lk, fd) == IF ~fd THEN lk ELSE NoLock

---------------------------------------------------------------------------
\* _prune_reuse_index_entries.

RECURSIVE InsertDesc_Ascending(_, _)

\* KeepRow with the age comparison turned round.
KeepRow_AgeInverted(item, t, logs_root) ==
    /\ item.task_id # <<>>
    /\ item.updated_at < t - Max2(0, REUSE_INDEX_RETENTION_TICKS)
    /\ PathExists(FromIndexPath(item.summary_path, logs_root))
    /\ PathExists(FromIndexPath(item.verdict_path, logs_root))

\* KeepRow without the test that the files exist.
KeepRow_NoFileCheck(item, t, logs_root) ==
    /\ item.task_id # <<>>
    /\ ~(item.updated_at < t - Max2(0, REUSE_INDEX_RETENTION_TICKS))

\* The rows that pass the first loop: a task id, not older than the
\* retention window, both files present.
KeepRow(item, t, logs_root) ==
    /\ item.task_id # <<>>
    /\ ~(item.updated_at < t - Max2(0, REUSE_INDEX_RETENTION_TICKS))
    /\ PathExists(FromIndexPath(item.summary_path, logs_root))
    /\ PathExists(FromIndexPath(item.verdict_path, logs_root))

\* An insertion that sorts oldest first.
InsertDesc_Ascending(sorted, row) ==
    IF sorted = <<>> THEN <<row>>
    ELSE IF Head(sorted).updated_at <= row.updated_at
    THEN <<Head(sorted)>> \o InsertDesc_Ascending(Tail(sorted), row)
    ELSE <<row>> \o sorted

\* A sort that is not stable: a row goes before the rows as new as itself.
RECURSIVE InsertDesc_Unstable(_, _)
InsertDesc_Unstable(sorted, row) ==
    IF sorted = <<>> THEN <<row>>
    ELSE IF Head(sorted).updated_at > row.updated_at
    THEN <<Head(sorted)>> \o InsertDesc_Unstable(Tail(sorted), row)
    ELSE <<row>> \o sorted

\* list.sort(key=updated_at, reverse=True): stable, newest first.
RECURSIVE InsertDesc(_, _)
InsertDesc(sorted, row) ==
    IF sorted = <<>> THEN <<row>>
    ELSE IF Head(sorted).updated_at >= row.updated_at
    THEN <<Head(sorted)>> \o InsertDesc(Tail(sorted), row)
    ELSE <<row>> \o sorted

RECURSIVE SortDesc(_, _)
SortDesc(rows, acc) ==
    IF rows = <<>> THEN acc
    ELSE SortDesc(Tail(rows), InsertDesc(acc, Head(rows)))

CountTask(rows, task_id) ==
    Cardinality({i \in 1..Len(rows) : rows[i].task_id = task_id})

\* The per-task loop: a row is skipped once its task has the maximum.
RECURSIVE LimitPerTask(_, _)
LimitPerTask(rows, acc) ==
    IF rows = <<>> THEN acc
    ELSE IF CountTask(acc, Head(rows).task_id) >= REUSE_INDEX_MAX_ENTRIES_PER_TASK
    THEN LimitPerTask(Tail(rows), acc)
    ELSE LimitPerTask(Tail(rows), Append(acc, Head(rows)))

\* limited_rows[: max(1, REUSE_INDEX_MAX_TOTAL_ENTRIES)]
LimitTotal(rows) ==
    SubSeq(rows, 1, Min2(Len(rows), Max2(1, REUSE_INDEX_MAX_TOTAL_ENTRIES)))

\* [entries, pruned_count]
PruneReuseIndexEntries(entries, t, logs_root) ==
    LET kept == SelectSeq(entries, LAMBDA item : KeepRow(item, t, logs_root))
        limited == LimitTotal(LimitPerTask(SortDesc(kept, <<>>), <<>>))
        out == SelectSeq(limited, LAMBDA item : Len(item.key) > 0)
    IN [entries |-> out, pruned_count |-> Max2(0, Len(entries) - Len(out))]

\* entries[key] = item: a known key keeps its place, a new key goes last.
Upsert(entries, item) ==
    IF \E i \in 1..Len(entries) : entries[i].key = item.key
    THEN [i \in 1..Len(entries) |->
            IF entries[i].key = item.key THEN item ELSE entries[i]]
    ELSE Append(entries, item)

\* A pop that removes nothing.
PopKey_Keeps(entries, key) == entries

\* entries.pop(key, None)
PopKey(entries, key) == SelectSeq(entries, LAMBDA item : item.key # key)

\* entries.get(key): the positions holding the key (none or one).
HasKey(entries, key) == \E i \in 1..Len(entries) : entries[i].key = key
GetKey(entries, key) ==
    entries[CHOOSE i \in 1..Len(entries) : entries[i].key = key]

---------------------------------------------------------------------------
\* Result files.

\* A summary.json is absent, holds no JSON ("garbage"), holds JSON that is
\* no object ("nondict"), or holds an object with a status and an input
\* hash.  A verdict.json is absent, holds no JSON ("garbage"), fails the
\* schema ("invalid": also JSON that is no object, which is validated as
\* {}), passes it in a form the validator rewrites ("raw": a status of
\* "OK", blanks around the task id, optional lists left out), or passes it
\* in normal form ("valid").
SummaryValues ==
    {NoSummary,
     [kind |-> "garbage", status |-> "", input_hash |-> ""],
     [kind |-> "nondict", status |-> "", input_hash |-> ""]}
    \cup [kind : {"dict"}, status : {"ok", "fail"}, input_hash : Hashes]
VerdictForms == {"absent", "garbage", "invalid", "raw", "valid"}

\* The parsed verdict of a directory.
VerdictObj(d) == [dir |-> d, form |-> verdict[d]]

\* validate_verdict_schema: [valid, normalized].
ValidateVerdictSchema(obj) ==
    [valid |-> obj.form \in {"raw", "valid"},
     normalized |-> [dir |-> obj.dir,
                     form |-> IF obj.form = "raw" THEN "valid" ELSE obj.form]]

\* SummaryMatches without the comparison of the input hash.
SummaryMatches_AnyHash(sm, input_hash) ==
    /\ sm.kind = "dict"
    /\ sm.status = "ok"

\* str(summary.get("status")).strip().lower() == "ok" and the recorded
\* input hash is the requested one.
SummaryMatches(sm, input_hash) ==
    /\ sm.kind = "dict"
    /\ sm.status = "ok"
    /\ sm.input_hash = input_hash

---------------------------------------------------------------------------
\* Stats.

NewReuseStats ==
    [reuse_index_hit |-> FALSE, reuse_index_fallback_scan |-> FALSE,
     reuse_index_pruned_count |-> 0, reuse_index_lock_wait_ms |-> 0]

\* A merge in which the later record replaces the earlier one.
MergeReuseStats_Replace(a, b) == b

\* merge_reuse_stats of two records, starting from _new_reuse_stats().
MergeReuseStats(a, b) ==
    [reuse_index_hit |-> a.reuse_index_hit \/ b.reuse_index_hit,
     reuse_index_fallback_scan |->
        a.reuse_index_fallback_scan \/ b.reuse_index_fallback_scan,
     reuse_index_pruned_count |->
        a.reuse_index_pruned_count + b.reuse_index_pruned_count,
     reuse_index_lock_wait_ms |->
        a.reuse_index_lock_wait_ms + b.reuse_index_lock_wait_ms]

\* apply_reuse_stats: the counters of the run summary (absent ones count
\* as False and 0) merged with the delta of a call.
ApplyReuseStats(summary_stats, delta) == MergeReuseStats(summary_stats, delta)

---------------------------------------------------------------------------
\* remember_reusable_ok_result_with_stats as a whole call.

\* _write_reuse_index: the temp file is renamed over the index file.
WriteReuseIndex(entries) == [kind |-> "ok", entries |-> entries]

NewEntry(task_id, input_hash, prompt_version, security_profile, logs_root, summary_path, verdict_path, t) ==
    [key |-> MakeReuseKey(task_id, input_hash, prompt_version, security_profile),
     task_id |-> task_id,
     input_hash |-> input_hash,
     prompt_version |-> prompt_version,
     security_profile |-> security_profile,
     summary_path |-> ToIndexPath(summary_path, logs_root),
     verdict_path |-> ToIndexPath(verdict_path, logs_root),
     updated_at |-> t]

\* [raised, stats, index, lock, write]: write is "raise" (mkdir raised in
\* the acquire, outside the try block), "nolock" (no lock obtained),
\* "loadraise" (the load raised inside the try block), "wfail" (the write
\* or the rename raised) or "wrote".  wfail says whether writing the index
\* fails in this call.
RememberResult(task_id, input_hash, prompt_version, security_profile, logs_root, summary_path, verdict_path, idx, lk, t, wfail) ==
    LET acq == AcquireReuseLock(lk, t, logs_root)
        stats0 == [NewReuseStats EXCEPT !.reuse_index_lock_wait_ms = acq.wait_ms]
        ld == LoadReuseIndex(idx, logs_root)
        item == NewEntry(task_id, input_hash, prompt_version, security_profile,
                         logs_root, summary_path, verdict_path, t)
        pr == PruneReuseIndexEntries(Upsert(ld.entries, item), t, logs_root)
        stats1 == [stats0 EXCEPT !.reuse_index_pruned_count = pr.pruned_count]
        released == ReleaseReuseLock(acq.lock, acq.fd)
    IN IF acq.raised
       THEN [raised |-> TRUE, stats |-> NewReuseStats, index |-> idx,
             lock |-> acq.lock, write |-> "raise"]
       ELSE IF ~acq.fd
       THEN [raised |-> FALSE, stats |-> stats0, index |-> idx,
             lock |-> acq.lock, write |-> "nolock"]
       ELSE IF ld.raised
       THEN [raised |-> FALSE, stats |-> stats0, index |-> idx,
             lock |-> released, write |-> "loadraise"]
       ELSE IF wfail
       THEN [raised |-> FALSE, stats |-> stats1, index |-> idx,
             lock |-> released, write |-> "wfail"]
       ELSE [raised |-> FALSE, stats |-> stats1,
             index |-> WriteReuseIndex(pr.entries),
             lock |-> released, write |-> "wrote"]

---------------------------------------------------------------------------
\* find_reusable_ok_result as a whole call.

\* The counters of a lock cycle that did not take place.
NoCycle == [pruned_count |-> 0, wait_ms |-> 0]

IsPrefix(p, q) == Len(p) <= Len(q) /\ SubSeq(q, 1, Len(p)) = p

\* A direct index path that sends every entry to the invalidation.
IndexedOutcome_AlwaysStale(entry, input_hash, logs_root, current_out_dir) == "stale"

\* The direct index path on an entry found under the key: "hit", "stale"
\* (the entry is to be invalidated) or "raise".  A json.loads failure of
\* either file sets both to {}; summary.get on parsed JSON that is no
\* object raises AttributeError outside the try block.
IndexedOutcome(entry, input_hash, logs_root, current_out_dir) ==
    LET summary_path == FromIndexPath(entry.summary_path, logs_root)
        verdict_path == FromIndexPath(entry.verdict_path, logs_root)
        sm == summary[PathDir(summary_path)]
        vd == VerdictObj(PathDir(verdict_path))
    IN IF ~(/\ PathParent(verdict_path) # current_out_dir
            /\ PathExists(summary_path)
            /\ PathExists(verdict_path))
       THEN "stale"
       ELSE IF sm.kind = "garbage" \/ vd.form = "garbage"
       THEN "stale"
       ELSE IF sm.kind = "nondict"
       THEN "raise"
       ELSE IF SummaryMatches(sm, input_hash) /\ ValidateVerdictSchema(vd).valid
       THEN "hit"
       ELSE "stale"

\* The invalidation cycle: [index, lock, pruned_count, wait_ms, status],
\* status as the write of RememberResult.
InvalidateResult(key, idx, lk, t, logs_root, wfail) ==
    LET acq == AcquireReuseLock(lk, t, logs_root)
        ld == LoadReuseIndex(idx, logs_root)
        pr == PruneReuseIndexEntries(PopKey(ld.entries, key), t, logs_root)
        released == ReleaseReuseLock(acq.lock, acq.fd)
    IN IF acq.raised
       THEN [index |-> idx, lock |-> acq.lock, pruned_count |-> 0,
             wait_ms |-> 0, status |-> "raise"]
       ELSE IF ~acq.fd
       THEN [index |-> idx, lock |-> acq.lock, pruned_count |-> 0,
             wait_ms |-> acq.wait_ms, status |-> "nolock"]
       ELSE IF ld.raised
       THEN [index |-> idx, lock |-> released, pruned_count |-> 0,
             wait_ms |-> acq.wait_ms, status |-> "loadraise"]
       ELSE IF wfail
       THEN [index |-> idx, lock |-> released,
             pruned_count |-> pr.pruned_count,
             wait_ms |-> acq.wait_ms, status |-> "wfail"]
       ELSE [index |-> WriteReuseIndex(pr.entries), lock |-> released,
             pruned_count |-> pr.pruned_count,
             wait_ms |-> acq.wait_ms, status |-> "wrote"]

\* ScanVisits without the test for the caller's own directory.
ScanVisits_OwnDirToo(d, task_id, logs_root, current_out_dir) ==
    /\ logs_root = "logs"
    /\ summary[d].kind # "absent"
    /\ IsPrefix(task_id, DirSuffix(d))

\* The directories whose summary.json the scan reads: rglob finds the
\* file, the directory name starts with the task prefix, and the directory
\* is not the caller's own.
ScanVisits(d, task_id, logs_root, current_out_dir) ==
    /\ logs_root = "logs"
    /\ summary[d].kind # "absent"
    /\ IsPrefix(task_id, DirSuffix(d))
    /\ OutDir(d) # current_out_dir

\* summary.get in the scan loop is outside the try block.
ScanRaises(task_id, logs_root, current_out_dir) ==
    \E d \in Dirs : /\ ScanVisits(d, task_id, logs_root, current_out_dir)
                    /\ summary[d].kind = "nondict"

ScanMatches(task_id, input_hash, logs_root, current_out_dir) ==
    {d \in Dirs : /\ ScanVisits(d, task_id, logs_root, current_out_dir)
                  /\ SummaryMatches(summary[d], input_hash)
                  /\ verdict[d] \notin {"absent", "garbage"}
                  /\ ValidateVerdictSchema(VerdictObj(d)).valid}

\* A scan that ends with a match of the least mtime.
ScanBest_Oldest(task_id, input_hash, logs_root, current_out_dir) ==
    LET ms == ScanMatches(task_id, input_hash, logs_root, current_out_dir)
    IN {d \in ms : \A d2 \in ms : mtime[d] <= mtime[d2]}

\* best: a match of the greatest mtime.  Among equal mtimes the first one
\* rglob yields stays, and the order rglob yields them in is the file
\* system's.
ScanBest(task_id, input_hash, logs_root, current_out_dir) ==
    LET ms == ScanMatches(task_id, input_hash, logs_root, current_out_dir)
    IN {d \in ms : \A d2 \in ms : mtime[d] >= mtime[d2]}

\* [outcome, via, hitDir, verdictObj, stats, index, lock, hadEntry,
\*  entryDir, inval, write, invStats, wbStats].  pick is the match the scan
\* ends with when there is one; invStats and wbStats are what the lock
\* cycle of the invalidation and that of the write-back counted.
FindResult(task_id, input_hash, prompt_version, security_profile, logs_root, current_out_dir, idx, lk, t, wfail, pick) ==
    LET key == MakeReuseKey(task_id, input_hash, prompt_version, security_profile)
        ld == LoadReuseIndex(idx, logs_root)
        had == HasKey(ld.entries, key)
        direct == IF had
                  THEN IndexedOutcome(GetKey(ld.entries, key), input_hash,
                                      logs_root, current_out_dir)
                  ELSE "none"
        entryDir == IF had
                    THEN PathDir(FromIndexPath(
                             GetKey(ld.entries, key).verdict_path, logs_root))
                    ELSE "-"
        inv == IF direct = "stale"
               THEN InvalidateResult(key, idx, lk, t, logs_root, wfail)
               ELSE [index |-> idx, lock |-> lk, pruned_count |-> 0,
                     wait_ms |-> 0, status |-> "none"]
        stats1 == [NewReuseStats EXCEPT
                      !.reuse_index_fallback_scan = TRUE,
                      !.reuse_index_pruned_count = inv.pruned_count,
                      !.reuse_index_lock_wait_ms = inv.wait_ms]
        best == ScanBest(task_id, input_hash, logs_root, current_out_dir)
        wb == RememberResult(task_id, input_hash, prompt_version,
                             security_profile, logs_root,
                             SummaryPathOf(pick), VerdictPathOf(pick),
                             inv.index, inv.lock, t, wfail)
        invStats == [pruned_count |-> inv.pruned_count,
                     wait_ms |-> inv.wait_ms]
        base == [outcome |-> "miss", via |-> "-", hitDir |-> "-",
                 verdictObj |-> NoVerdictObj, stats |-> NewReuseStats,
                 index |-> idx, lock |-> lk, hadEntry |-> FALSE,
                 entryDir |-> "-", inval |-> "none", write |-> "none",
                 invStats |-> NoCycle, wbStats |-> NoCycle]
    IN IF ~RootExists(logs_root)
       THEN base
       ELSE IF ld.raised
       THEN [base EXCEPT !.outcome = "raise"]
       ELSE IF direct = "raise"
       THEN [base EXCEPT !.outcome = "raise", !.hadEntry = TRUE,
                         !.entryDir = entryDir]
       ELSE IF direct = "hit"
       THEN [base EXCEPT
               !.outcome = "hit", !.via = "index", !.hitDir = entryDir,
               !.verdictObj = ValidateVerdictSchema(VerdictObj(entryDir)).normalized,
               !.stats = [NewReuseStats EXCEPT !.reuse_index_hit = TRUE],
               !.hadEntry = TRUE, !.entryDir = entryDir]
       ELSE IF inv.status = "raise"
            \/ ScanRaises(task_id, logs_root, current_out_dir)
       THEN [base EXCEPT
               !.outcome = "raise", !.stats = stats1, !.index = inv.index,
               !.lock = inv.lock, !.hadEntry = had, !.entryDir = entryDir,
               !.inval = inv.status, !.invStats = invStats]
       ELSE IF best = {}
       THEN [base EXCEPT
               !.stats = stats1, !.index = inv.index, !.lock = inv.lock,
               !.hadEntry = had, !.entryDir = entryDir, !.inval = inv.status,
               !.invStats = invStats]
       ELSE [base EXCEPT
               !.outcome = IF wb.raised THEN "raise" ELSE "hit",
               !.via = "scan", !.hitDir = pick,
               !.verdictObj = ValidateVerdictSchema(VerdictObj(pick)).normalized,
               !.stats = MergeReuseStats(stats1, wb.stats),
               !.index = wb.index, !.lock = wb.lock,
               !.hadEntry = had, !.entryDir = entryDir,
               !.inval = inv.status, !.write = wb.write,
               !.invStats = invStats,
               !.wbStats = [pruned_count |-> wb.stats.reuse_index_pruned_count,
                            wait_ms |-> wb.stats.reuse_index_lock_wait_ms]]

---------------------------------------------------------------------------
\* explain_reuse_miss.

\* Runtime-code fingerprints: "" is a summary written before the field
\* existed.
Fingerprints == {"", "f1", "f2"}
SecurityProfiles == {"host-safe", "strict"}
\* The default and a smaller sample_limit.
SampleLimits == {1, 5}

\* _read_runtime_fp: [raised, fp].  A summary that is missing or holds no
\* JSON gives ""; obj.get on parsed JSON that is no object raises outside
\* the try block.
ReadRuntimeFp(summary_path) ==
    LET sm == summary[PathDir(summary_path)]
    IN IF summary_path[1] # "logs" \/ sm.kind \in {"absent", "garbage"}
       THEN [raised |-> FALSE, fp |-> ""]
       ELSE IF sm.kind = "nondict"
       THEN [raised |-> TRUE, fp |-> ""]
       ELSE [raised |-> FALSE, fp |-> sm.runtime_code_fingerprint]

\* The list with the dimension added although an entry matches on it.
ExplainMismatches_Inverted(same_task, same_task_hash, same_task_prompt, same_task_sec, fp_mismatch) ==
    IF same_task = {}
    THEN <<"task_id">>
    ELSE (IF same_task_hash = {} THEN <<"input_hash">> ELSE <<>>)
         \o (IF same_task_prompt # {} THEN <<"prompt_version">> ELSE <<>>)
         \o (IF same_task_sec = {} THEN <<"security_profile">> ELSE <<>>)
         \o (IF fp_mismatch THEN <<"runtime_code_fingerprint">> ELSE <<>>)

\* The mismatches list as the appends build it.
ExplainMismatches(same_task, same_task_hash, same_task_prompt, same_task_sec, fp_mismatch) ==
    IF same_task = {}
    THEN <<"task_id">>
    ELSE (IF same_task_hash = {} THEN <<"input_hash">> ELSE <<>>)
         \o (IF same_task_prompt = {} THEN <<"prompt_version">> ELSE <<>>)
         \o (IF same_task_sec = {} THEN <<"security_profile">> ELSE <<>>)
         \o (IF fp_mismatch THEN <<"runtime_code_fingerprint">> ELSE <<>>)

NoExplain ==
    [raised |-> FALSE, mismatch_dimensions |-> <<>>, index_exists |-> FALSE,
     index_entries |-> 0, same_task |-> 0,
     same_task_runtime_code_fingerprint |-> 0, samples |-> 0,
     runtime_code_fingerprint |-> "", sample_limit |-> 0]

\* if target_fp: has_any_cached_fp and not same_task_fp
FpMismatch(target_fp, has_any_cached_fp, same_task_fp) ==
    /\ target_fp # ""
    /\ has_any_cached_fp
    /\ same_task_fp = {}

\* explain_reuse_miss: the fields of its result the properties speak of,
\* with the target fingerprint and the sample limit of the call.
ExplainReuseMiss(idx, logs_root, task_id, input_hash, prompt_version, security_profile, runtime_code_fingerprint, sample_limit) ==
    LET entries == IF idx.kind = "ok" THEN idx.entries ELSE <<>>
        sfp(i) == ReadRuntimeFp(FromIndexPath(entries[i].summary_path, logs_root))
        same_task == {i \in DOMAIN entries : entries[i].task_id = task_id}
        same_task_hash ==
            {i \in same_task : entries[i].input_hash = input_hash}
        same_task_prompt ==
            {i \in same_task : entries[i].prompt_version = prompt_version}
        same_task_sec ==
            {i \in same_task : entries[i].security_profile = security_profile}
        same_task_fp ==
            {i \in same_task : /\ runtime_code_fingerprint # ""
                               /\ sfp(i).fp # ""
                               /\ sfp(i).fp = runtime_code_fingerprint}
        samples == 1..Min2(Len(entries), Max2(1, sample_limit))
        has_any_cached_fp == \E i \in samples : sfp(i).fp # ""
        fp_mismatch == FpMismatch(runtime_code_fingerprint,
                                  has_any_cached_fp, same_task_fp)
        base == [NoExplain EXCEPT
                   !.index_exists = IndexFileExists(idx, logs_root),
                   !.runtime_code_fingerprint = runtime_code_fingerprint,
                   !.sample_limit = sample_limit]
    IN IF ~IndexFileExists(idx, logs_root)
       THEN [base EXCEPT !.mismatch_dimensions = <<"task_id">>]
       ELSE IF idx.kind = "garbage"
       THEN [base EXCEPT !.mismatch_dimensions = <<"index_parse_error">>]
       ELSE IF idx.kind = "nondict"
       THEN [base EXCEPT !.raised = TRUE]
       ELSE IF entries = <<>>
       THEN [base EXCEPT !.mismatch_dimensions = <<"task_id">>]
       ELSE IF \E i \in DOMAIN entries : sfp(i).raised
       THEN [base EXCEPT !.raised = TRUE, !.index_entries = Len(entries)]
       ELSE [base EXCEPT
               !.index_entries = Len(entries),
               !.same_task = Cardinality(same_task),
               !.same_task_runtime_code_fingerprint = Cardinality(same_task_fp),
               !.samples = Cardinality(samples),
               !.mismatch_dimensions =
                   ExplainMismatches(same_task, same_task_hash,
                                     same_task_prompt, same_task_sec,
                                     fp_mismatch)]

---------------------------------------------------------------------------
\* The single-caller system.

NoPrev ==
    [op |-> "none", dir |-> "-", via |-> "-", hitDir |-> "-", write |-> "none"]
NoRet ==
    [op |-> "none", root |-> "-", task_id |-> <<>>, input_hash |-> "",
     prompt_version |-> "", security_profile |-> "", dir |-> "-",
     outcome |-> "none", via |-> "-", hitDir |-> "-",
     verdictObj |-> NoVerdictObj, stats |-> NewReuseStats,
     hadEntry |-> FALSE, entryDir |-> "-", inval |-> "none",
     write |-> "none", lockAge |-> -1, indexBefore |-> "absent",
     invStats |-> NoCycle, wbStats |-> NoCycle,
     applied |-> NewReuseStats, appliedTo |-> NewReuseStats,
     explain |-> NoExplain, prev |-> NoPrev]

\* The call before this one, when it had the same logs root and key.
PrevOf(r, logs_root, task_id, input_hash, prompt_version, security_profile) ==
    IF /\ r.op # "none"
       /\ r.root = logs_root
       /\ r.task_id = task_id
       /\ r.input_hash = input_hash
       /\ r.prompt_version = prompt_version
       /\ r.security_profile = security_profile
    THEN [op |-> r.op, dir |-> r.dir, via |-> r.via, hitDir |-> r.hitDir,
          write |-> r.write]
    ELSE NoPrev

\* The counters of the run summary before apply_reuse_stats adds those of
\* this call: what the call before left there when it belongs to the same
\* run, else a summary without counters.
SummaryStatsBefore(r, logs_root, task_id, input_hash, prompt_version, security_profile) ==
    IF PrevOf(r, logs_root, task_id, input_hash, prompt_version,
              security_profile) = NoPrev
    THEN NewReuseStats
    ELSE r.applied

\* The caller applies the stats of a call that returned; a call that
\* raised leaves the run summary as it was.
AppliedStats(before, raised, stats) ==
    IF raised THEN before ELSE ApplyReuseStats(before, stats)

\* The age of the lock file as a call finds it, -1 without a lock file.
LockAge(lk, t) == IF lk.present THEN t - lk.mtime ELSE -1

\* The output directories a run of a task writes: those named after it.
OwnDirs(task_id) == {d \in Dirs : DirSuffix(d) = task_id}

\* What write_checked_outputs leaves in an output directory: nothing yet,
\* or a summary with the checked verdict; a verdict that fails the schema
\* turns the summary status to fail.  [summary, verdict]
StoredResults ==
    {[summary |-> NoSummary, verdict |-> "absent"]}
    \cup {[summary |-> [kind |-> "dict", status |-> "ok", input_hash |-> h],
           verdict |-> "valid"] : h \in Hashes}
    \cup {[summary |-> [kind |-> "dict", status |-> "fail", input_hash |-> "h1"],
           verdict |-> "invalid"]}

\* The logs root before the first call: no index, no lock, and in each
\* output directory what an earlier run wrote there.
Init ==
    /\ now = 0
    /\ index = AbsentIndex
    /\ lock = NoLock
    /\ \E res \in [Dirs -> StoredResults] :
          /\ res["dB"].summary.input_hash # "h2"
          /\ summary = [d \in Dirs |-> res[d].summary]
          /\ verdict = [d \in Dirs |-> res[d].verdict]
          /\ mtime \in [Dirs -> 0..1]
          /\ \A d \in Dirs : res[d].verdict = "absent" => mtime[d] = 0
    /\ faults = 0
    /\ ret = NoRet
    /\ procs = <<>>
    /\ hashes = <<>>
    /\ tmp = <<>>
    /\ rounds = <<>>
    /\ guard = <<>>

Remember(task_id, input_hash, prompt_version, security_profile, logs_root, d, wfail) ==
    \E r \in {RememberResult(task_id, input_hash, prompt_version,
                              security_profile, logs_root, SummaryPathOf(d),
                              VerdictPathOf(d), index, lock, now, wfail)} :
       /\ now' = now + 1
       /\ wfail => r.write = "wfail"
       /\ index' = r.index
       /\ lock' = r.lock
       /\ ret' = [NoRet EXCEPT
                    !.op = "remember", !.root = logs_root,
                    !.task_id = task_id, !.input_hash = input_hash,
                    !.prompt_version = prompt_version,
                    !.security_profile = security_profile, !.dir = d,
                    !.outcome = IF r.raised THEN "raise" ELSE "stats",
                    !.stats = r.stats, !.write = r.write,
                    !.appliedTo = SummaryStatsBefore(
                        ret, logs_root, task_id, input_hash, prompt_version,
                        security_profile),
                    !.applied = AppliedStats(
                        SummaryStatsBefore(
                          ret, logs_root, task_id, input_hash, prompt_version,
                          security_profile),
                        r.raised, r.stats),
                    !.lockAge = LockAge(lock, now),
                    !.indexBefore = index.kind,
                    !.prev = PrevOf(ret, logs_root, task_id, input_hash,
                                    prompt_version, security_profile)]
       /\ UNCHANGED <<summary, verdict, mtime, faults, procs, hashes, tmp, rounds, guard>>

Find(task_id, input_hash, prompt_version, security_profile, logs_root, cur, wfail, pick) ==
    /\ LET best == ScanBest(task_id, input_hash, logs_root, OutDir(cur))
       IN pick \in best \/ (best = {} /\ pick = cur)
    /\ \E r \in {FindResult(task_id, input_hash, prompt_version,
                             security_profile, logs_root, OutDir(cur),
                             index, lock, now, wfail, pick)} :
       /\ now' = now + 1
       /\ wfail => "wfail" \in {r.inval, r.write}
       /\ index' = r.index
       /\ lock' = r.lock
       /\ ret' = [NoRet EXCEPT
                    !.op = "find", !.root = logs_root,
                    !.task_id = task_id, !.input_hash = input_hash,
                    !.prompt_version = prompt_version,
                    !.security_profile = security_profile, !.dir = cur,
                    !.outcome = r.outcome, !.via = r.via,
                    !.hitDir = r.hitDir, !.verdictObj = r.verdictObj,
                    !.stats = r.stats, !.hadEntry = r.hadEntry,
                    !.entryDir = r.entryDir,
                    !.inval = r.inval, !.write = r.write,
                    !.invStats = r.invStats, !.wbStats = r.wbStats,
                    !.appliedTo = SummaryStatsBefore(
                        ret, logs_root, task_id, input_hash, prompt_version,
                        security_profile),
                    !.applied = AppliedStats(
                        SummaryStatsBefore(
                          ret, logs_root, task_id, input_hash, prompt_version,
                          security_profile),
                        r.outcome = "raise", r.stats),
                    !.lockAge = LockAge(lock, now),
                    !.indexBefore = index.kind,
                    !.prev = PrevOf(ret, logs_root, task_id, input_hash,
                                    prompt_version, security_profile)]
       /\ UNCHANGED <<summary, verdict, mtime, faults, procs, hashes, tmp, rounds, guard>>

\* Another process holds the lock file, or its owner is gone and left it.
OtherLocks ==
    /\ now < MaxCalls
    /\ ~lock.present
    /\ lock' = [present |-> TRUE, owner |-> "other", mtime |-> now]
    /\ ret' = NoRet
    /\ UNCHANGED <<now, index, summary, verdict, mtime, faults, procs, hashes, tmp, rounds, guard>>

OtherUnlocks ==
    /\ now < MaxCalls
    /\ lock.present
    /\ lock' = NoLock
    /\ ret' = NoRet
    /\ UNCHANGED <<now, index, summary, verdict, mtime, faults, procs, hashes, tmp, rounds, guard>>

\* Edits by other parties: a summary or a verdict is rewritten or deleted,
\* the index file is damaged or deleted.  Nothing reads the files after
\* the last call of a run, so the edits stop there.
TamperSummary(d, value) ==
    /\ now < MaxCalls
    /\ faults < MaxFaults
    /\ summary[d] # value
    /\ summary' = [summary EXCEPT ![d] = value]
    /\ faults' = faults + 1
    /\ ret' = NoRet
    /\ UNCHANGED <<now, index, lock, verdict, mtime, procs, hashes, tmp, rounds, guard>>

TamperVerdict(d, form) ==
    /\ now < MaxCalls
    /\ faults < MaxFaults
    /\ verdict[d] # form
    /\ verdict' = [verdict EXCEPT ![d] = form]
    /\ mtime' = [mtime EXCEPT ![d] = IF form = "absent" THEN 0 ELSE now]
    /\ faults' = faults + 1
    /\ ret' = NoRet
    /\ UNCHANGED <<now, index, lock, summary, procs, hashes, tmp, rounds, guard>>

DamageIndex(kind) ==
    /\ now < MaxCalls
    /\ faults < MaxFaults
    /\ index.kind # kind
    /\ index' = [kind |-> kind, entries |-> <<>>]
    /\ faults' = faults + 1
    /\ ret' = NoRet
    /\ UNCHANGED <<now, lock, summary, verdict, mtime, procs, hashes, tmp, rounds, guard>>

\* The calls of the single-caller system: one prompt version, both input
\* hashes for task 1 and one for task 11, and the logs root that is a
\* regular file only with the first key.
CallRoots(t, h) ==
    IF t = <<"1">> /\ h = "h1" THEN LogsRoots ELSE {"logs"}
CallHashes(t) == IF t = <<"1">> THEN Hashes ELSE {"h1"}

Next ==
    \/ \E t \in Tasks, p \in Profiles, wfail \in BOOLEAN :
          \E h \in CallHashes(t), d \in OwnDirs(t) :
          \E root \in CallRoots(t, h) :
             now < MaxCalls /\ Remember(t, h, "v1", p, root, d, wfail)
    \/ \E t \in Tasks, p \in Profiles, wfail \in BOOLEAN,
          pick \in Dirs \cup {NewDir} :
          \E h \in CallHashes(t), cur \in OwnDirs(t) \cup {NewDir} :
          \E root \in CallRoots(t, h) :
             now < MaxCalls /\ Find(t, h, "v1", p, root, cur, wfail, pick)
    \/ OtherLocks
    \/ OtherUnlocks
    \/ \E d \in Dirs, value \in SummaryValues : TamperSummary(d, value)
    \/ \E d \in Dirs, form \in VerdictForms : TamperVerdict(d, form)
    \/ \E kind \in IndexKinds \ {"ok"} : DamageIndex(kind)

Spec == Init /\ [][Next]_vars

---------------------------------------------------------------------------
\* Properties of the single-caller system.

\* The lookup key of the call recorded in ret, and its entry in the index
\* file as the call left it.
RetKey ==
    MakeReuseKey(ret.task_id, ret.input_hash, ret.prompt_version,
                 ret.security_profile)
RetHasEntry == index.kind = "ok" /\ HasKey(index.entries, RetKey)
RetEntryDir ==
    PathDir(FromIndexPath(GetKey(index.entries, RetKey).verdict_path, ret.root))
RetScanMatches ==
    ScanMatches(ret.task_id, ret.input_hash, ret.root, OutDir(ret.dir))
RetScanRaises == ScanRaises(ret.task_id, ret.root, OutDir(ret.dir))

C2_FailClosedHits ==
    (ret.op = "find" /\ ret.outcome = "hit")
    => /\ ret.hitDir \in Dirs
       /\ summary[ret.hitDir].kind = "dict"
       /\ summary[ret.hitDir].status = "ok"
       /\ summary[ret.hitDir].input_hash = ret.input_hash
       /\ verdict[ret.hitDir] \in {"raw", "valid"}
       /\ ret.verdictObj = [dir |-> ret.hitDir, form |-> "valid"]

\* A hit through an index entry while another directory of the same task
\* prefix holds a result that would not pass.
C2_Witness ==
    /\ ret.op = "find"
    /\ ret.outcome = "hit"
    /\ ret.via = "index"
    /\ \E d \in Dirs : /\ d # ret.hitDir
                       /\ summary[d].kind # "absent"
                       /\ ~SummaryMatches(summary[d], ret.input_hash)

\* C3 (stale entry invalidation).  When the index holds an entry for the
\* key and its re-validation fails, the call never returns that entry's
\* data; when the invalidation cycle obtains the lock and writes, the
\* entry is gone from the index file (the key is absent, or the write-back
\* of a scan hit has put another directory under it); and when no other
\* matching result exists the call returns a miss.
C3_StaleEntryInvalidated ==
    (ret.op = "find" /\ ret.inval # "none")
    => /\ ret.hadEntry
       /\ ret.hitDir # ret.entryDir
       /\ ret.inval = "wrote"
          => (RetHasEntry
              => /\ ret.write = "wrote"
                 /\ RetEntryDir = ret.hitDir
                 /\ RetEntryDir # ret.entryDir)
       /\ (RetScanMatches = {} /\ ~RetScanRaises /\ ret.inval # "raise")
          => ret.outcome = "miss"

C3_Witness ==
    /\ ret.op = "find"
    /\ ret.hadEntry
    /\ ret.inval = "wrote"
    /\ ret.outcome = "miss"
    /\ ~RetHasEntry
    /\ ret.dir # ret.entryDir
    /\ summary[ret.entryDir].kind # "absent"

\* C5 (fallback scan recovery).  With an index that holds no entry for the
\* key (missing, unparsable, without entries, or holding other keys) and a
\* directory holding a valid successful result for the request, find
\* returns a best match through the scan with fallback_scan = true and
\* index_hit = false; when its write-back obtains the lock and writes, the
\* index holds the result under the key, and an immediately following call
\* with the same parameters returns it through the index with index_hit =
\* true.
C5_FallbackScanRecovery ==
    /\ (/\ ret.op = "find"
        /\ ret.indexBefore # "nondict"
        /\ ~ret.hadEntry
        /\ ~RetScanRaises
        /\ RetScanMatches # {})
       => /\ ret.outcome = "hit"
          /\ ret.via = "scan"
          /\ ret.hitDir \in ScanBest(ret.task_id, ret.input_hash, ret.root,
                                     OutDir(ret.dir))
          /\ ret.stats.reuse_index_fallback_scan
          /\ ~ret.stats.reuse_index_hit
          /\ ret.write = "wrote"
             => RetHasEntry /\ RetEntryDir = ret.hitDir
    /\ (/\ ret.op = "find"
        /\ ret.prev.op = "find"
        /\ ret.prev.via = "scan"
        /\ ret.prev.write = "wrote"
        /\ ret.dir = ret.prev.dir)
       => /\ ret.outcome = "hit"
          /\ ret.via = "index"
          /\ ret.hitDir = ret.prev.hitDir
          /\ ret.stats.reuse_index_hit
          /\ ~ret.stats.reuse_index_fallback_scan

\* The second of two finds: the first came through the scan on a missing
\* index and wrote back, the second comes through the index.
C5_Witness ==
    /\ ret.op = "find"
    /\ ret.prev.op = "find"
    /\ ret.prev.via = "scan"
    /\ ret.prev.write = "wrote"
    /\ ret.dir = ret.prev.dir
    /\ ret.via = "index"
    /\ ret.stats.reuse_index_hit

\* C7 (stale lock reclaim).  When a call that takes the lock finds a lock
\* file whose age is at or beyond REUSE_INDEX_STALE_LOCK_TICKS, and no
\* other party touches the lock file during the call, the acquire removes
\* that lock file and obtains the lock in the same call, after one sleep
\* of the retry loop; the call releases it again.
C7_StaleLockReclaim ==
    (/\ ret.op \in {"remember", "find"}
     /\ ret.lockAge >= REUSE_INDEX_STALE_LOCK_TICKS
     /\ ret.write # "raise"
     /\ ret.inval # "none" \/ ret.write # "none")
    => /\ ret.inval # "nolock"
       /\ ret.write # "nolock"
       /\ ret.stats.reuse_index_lock_wait_ms = SleepMs
       /\ ~lock.present

\* A remember call met a lock file exactly as old as the threshold and
\* wrote the index.
C7_Witness ==
    /\ ret.op = "remember"
    /\ ret.lockAge = REUSE_INDEX_STALE_LOCK_TICKS
    /\ ret.write = "wrote"
    /\ ret.stats.reuse_index_lock_wait_ms = SleepMs

\* C9 (degraded write is a no-op), as claimed: a remember call that does
\* not write the index (no lock, or file I/O failing inside it) returns
\* its stats without raising.
C9_DegradedWriteReturnsStats ==
    (ret.op = "remember" /\ ret.write # "wrote") => ret.outcome = "stats"

\* C10 (load never raises), as claimed: whatever the index file holds,
\* _load_reuse_index returns an index and does not raise.
C10_LoadNeverRaises ==
    \A logs_root \in LogsRoots : ~LoadReuseIndex(index, logs_root).raised

---------------------------------------------------------------------------
\* The runs that fill the index: one caller, an uncontended lock, no write
\* failure, more keys than the caps admit, and a clock that also advances
\* between calls, so that entries age and result files disappear.

PruneKeys ==
    {<<t, h, v>> \in Tasks \X Hashes \X Versions : t = <<"1">> \/ h = "h1"}

PruneInit ==
    /\ now = 0
    /\ index = AbsentIndex
    /\ lock = NoLock
    /\ summary = [d \in Dirs |->
                    [kind |-> "dict", status |-> "ok", input_hash |-> "h1"]]
    /\ verdict = [d \in Dirs |-> "valid"]
    /\ mtime = [d \in Dirs |-> 0]
    /\ faults = 0
    /\ ret = NoRet
    /\ procs = <<>>
    /\ hashes = <<>>
    /\ tmp = <<>>
    /\ rounds = <<>>
    /\ guard = <<>>

\* Time passes between two calls.
Tick ==
    /\ now < MaxPruneTime
    /\ now' = now + 1
    /\ ret' = NoRet
    /\ UNCHANGED <<index, lock, summary, verdict, mtime, faults, procs, hashes, tmp, rounds, guard>>

\* An output directory is cleaned up.
DeleteResult(d) ==
    /\ now < MaxPruneTime
    /\ faults < MaxFaults
    /\ summary[d].kind # "absent"
    /\ summary' = [summary EXCEPT ![d] = NoSummary]
    /\ verdict' = [verdict EXCEPT ![d] = "absent"]
    /\ mtime' = [mtime EXCEPT ![d] = 0]
    /\ faults' = faults + 1
    /\ ret' = NoRet
    /\ UNCHANGED <<now, index, lock, procs, hashes, tmp, rounds, guard>>

PruneNext ==
    \/ \E k \in PruneKeys, p \in Profiles : \E d \in OwnDirs(k[1]) :
          /\ now < MaxPruneTime
          /\ Remember(k[1], k[2], k[3], p, "logs", d, FALSE)
    \/ \E k \in PruneKeys, p \in Profiles, pick \in Dirs \cup {NewDir} :
          /\ now < MaxPruneTime
          /\ k[3] = "v1"
          /\ Find(k[1], k[2], k[3], p, "logs", NewDir, FALSE, pick)
    \/ Tick
    \/ \E d \in Dirs : DeleteResult(d)

PruneSpec == PruneInit /\ [][PruneNext]_vars

\* The entries the caps must leave of the rows inp pruned at time t, told
\* by counting: a row is eligible when it is inside the retention window
\* and both its files exist; it survives the per-task cap when fewer than
\* the cap of eligible rows of its task are newer; it survives the total
\* cap when fewer than that cap of the per-task survivors are newer.
C6_Eligible(inp, t) ==
    {i \in DOMAIN inp :
        /\ inp[i].updated_at >= t - REUSE_INDEX_RETENTION_TICKS
        /\ PathExists(FromIndexPath(inp[i].summary_path, "logs"))
        /\ PathExists(FromIndexPath(inp[i].verdict_path, "logs"))}
C6_PerTask(inp, eligible) ==
    {i \in eligible :
        Cardinality({j \in eligible :
                        /\ inp[j].task_id = inp[i].task_id
                        /\ inp[j].updated_at > inp[i].updated_at})
           < REUSE_INDEX_MAX_ENTRIES_PER_TASK}
C6_Kept(inp, perTask) ==
    {i \in perTask :
        Cardinality({j \in perTask : inp[j].updated_at > inp[i].updated_at})
           < REUSE_INDEX_MAX_TOTAL_ENTRIES}
C6_Retained(inp, out, t) ==
    \A eligible \in {C6_Eligible(inp, t)} :
    \A perTask \in {C6_PerTask(inp, eligible)} :
    \A kept \in {C6_Kept(inp, perTask)} :
       /\ {out[k] : k \in DOMAIN out} = {inp[i] : i \in kept}
       /\ Len(out) = Cardinality(kept)
C6_Caps(out) ==
    /\ Len(out) <= REUSE_INDEX_MAX_TOTAL_ENTRIES
    /\ \A task_id \in Tasks :
          CountTask(out, task_id) <= REUSE_INDEX_MAX_ENTRIES_PER_TASK

\* C6 (pruning bounds).  After any remember call or stale-entry
\* invalidation that writes the index, the index holds at most
\* REUSE_INDEX_MAX_ENTRIES_PER_TASK entries of each task id and at most
\* REUSE_INDEX_MAX_TOTAL_ENTRIES entries in total, and the entries kept
\* of those that are fresh and have their files are the most recently
\* updated ones, per task first and then over all tasks.
C6_PruningBounds ==
    [][/\ index'.kind = "ok" => C6_Caps(index'.entries)
       /\ (ret'.op = "remember" /\ ret'.write = "wrote")
          => C6_Retained(
                Upsert(LoadReuseIndex(index, "logs").entries,
                       NewEntry(ret'.task_id, ret'.input_hash,
                                ret'.prompt_version, ret'.security_profile,
                                "logs", SummaryPathOf(ret'.dir),
                                VerdictPathOf(ret'.dir), now)),
                index'.entries, now)
       /\ (ret'.op = "find" /\ ret'.inval = "wrote" /\ ret'.write = "none")
          => C6_Retained(
                PopKey(LoadReuseIndex(index, "logs").entries,
                       MakeReuseKey(ret'.task_id, ret'.input_hash,
                                    ret'.prompt_version,
                                    ret'.security_profile)),
                index'.entries, now)
      ]_vars

\* A remember call has just cut an entry that was fresh and had its files,
\* and the index is full.
C6_Witness ==
    /\ ret.op = "remember"
    /\ ret.write = "wrote"
    /\ ret.stats.reuse_index_pruned_count > 0
    /\ Len(index.entries) = REUSE_INDEX_MAX_TOTAL_ENTRIES
    /\ faults = 0
    /\ now <= REUSE_INDEX_RETENTION_TICKS + 1

\* An entry that the prune at time t must remove: older than the retention
\* window, or one of its files is gone.
C18_Expired(item, t) == item.updated_at < t - REUSE_INDEX_RETENTION_TICKS
C18_Orphaned(item) ==
    \/ ~PathExists(FromIndexPath(item.summary_path, "logs"))
    \/ ~PathExists(FromIndexPath(item.verdict_path, "logs"))
C18_Pruned(inp, out, t, pruned_count) ==
    /\ \A k \in DOMAIN out :
          ~C18_Expired(out[k], t) /\ ~C18_Orphaned(out[k])
    /\ \A i \in DOMAIN inp :
          (C18_Expired(inp[i], t) \/ C18_Orphaned(inp[i]))
             => \A k \in DOMAIN out : out[k] # inp[i]
    /\ \A k \in DOMAIN out : \E i \in DOMAIN inp : out[k] = inp[i]
    /\ pruned_count = Len(inp) - Len(out)

\* C18 (prune removes expired and orphaned entries).  Whenever a remember
\* call or a stale-entry invalidation writes the index, every entry it
\* retains was updated within the retention window and has both its files
\* at that time, every entry of the pruned dict that is older or lacks a
\* file is gone, and the pruned count is the number of entries the prune
\* took out.
C18_PruneRemovesExpiredAndOrphaned ==
    [][/\ (ret'.op = "remember" /\ ret'.write = "wrote")
          => C18_Pruned(
                Upsert(LoadReuseIndex(index, "logs").entries,
                       NewEntry(ret'.task_id, ret'.input_hash,
                                ret'.prompt_version, ret'.security_profile,
                                "logs", SummaryPathOf(ret'.dir),
                                VerdictPathOf(ret'.dir), now)),
                index'.entries, now,
                ret'.stats.reuse_index_pruned_count)
       /\ (ret'.op = "find" /\ ret'.inval = "wrote" /\ ret'.write = "none")
          => C18_Pruned(
                PopKey(LoadReuseIndex(index, "logs").entries,
                       MakeReuseKey(ret'.task_id, ret'.input_hash,
                                    ret'.prompt_version,
                                    ret'.security_profile)),
                index'.entries, now,
                ret'.invStats.pruned_count)
      ]_vars

\* A remember call has just pruned entries that the caps would have let
\* stay: they were too old or had lost a file.
C18_Witness ==
    /\ ret.op = "remember"
    /\ ret.write = "wrote"
    /\ ret.stats.reuse_index_pruned_count > 0
    /\ ret.stats.reuse_index_pruned_count + Len(index.entries)
          <= REUSE_INDEX_MAX_ENTRIES_PER_TASK

---------------------------------------------------------------------------
\* Two processes, each making one remember call or one find call,
\* interleaved at the level of the system calls.  The result files are in place and stay; the lock
\* file of an owner that is gone may lie in the logs root.  A call is
\* short against one tick of the clock: time passes only between calls.

\* The last value of the clock of these runs.
MaxConcTime == 1

Procs == {"p1", "p2"}

\* The request of each process.  The output directory of a run is named
\* after its task, and after its round when it is given one, so a find is
\* called with the directory the last run of the task wrote, or with a
\* directory that holds no files yet, as current_out_dir.
ConcTask(p) == IF p = "p1" THEN <<"1">> ELSE <<"1", "1">>
ProcTask(p) == procs[p].task
ProcDir(p) == IF procs[p].task = <<"1">> THEN "dA" ELSE "dB"
ProcKey(p) == MakeReuseKey(ProcTask(p), "h1", "v1", "host-safe")
ProcRoots(p) == IF p = "p1" THEN LogsRoots ELSE {"logs"}

\* task: the task of the run; cur: the current_out_dir of its find; inval:
\* whether its invalidation wrote the index;
\* pc: where the process is; op: the call it makes; root: its logs root;
\* phase: the lock cycle it is in ("inval" in the invalidation of find,
\* "remember" in a remember call or in the write-back of find); dir: the
\* result directory a remember cycle stores; fd: the lock handle; sleeps:
\* the sleeps of the retry loop so far; snapshot: the entries find read at
\* its start; loaded: the entries read by _load_reuse_index in the lock
\* cycle; fresh: loaded was read since the lock was obtained; content: the
\* index it is writing; res: how the call ended.
IdleProc ==
    [task |-> <<>>, cur |-> "-", inval |-> FALSE,
     pc |-> "idle", op |-> "none", root |-> "-", phase |-> "none",
     dir |-> "-", fd |-> FALSE, sleeps |-> 0, snapshot |-> <<>>,
     loaded |-> <<>>, fresh |-> FALSE, content |-> AbsentIndex,
     res |-> "none"]

InCall(p) == procs[p].pc \notin {"idle", "done"}

\* No temp file, and the temp files at the start: none.
NoTmp == [state |-> "absent", content |-> AbsentIndex]
NoTmpFiles == [n \in {<<"tmp", p>> : p \in Procs} |-> NoTmp]

\* The index file at the start: none, or the one the last run of task 1
\* left.
ConcIndexes ==
    {AbsentIndex,
     WriteReuseIndex(<<NewEntry(<<"1">>, "h1", "v1", "host-safe", "logs",
                                SummaryPathOf("dA"), VerdictPathOf("dA"),
                                0)>>)}

ConcInit ==
    /\ now = 0
    /\ index \in ConcIndexes
    /\ lock \in {NoLock, [present |-> TRUE, owner |-> "gone", mtime |-> 0]}
    /\ summary = [d \in Dirs |->
                    [kind |-> "dict", status |-> "ok", input_hash |-> "h1"]]
    /\ verdict \in [Dirs -> {"valid", "invalid"}]
    /\ verdict["dB"] = "valid"
    /\ mtime = [d \in Dirs |-> 0]
    /\ faults = 0
    /\ ret = NoRet
    /\ procs = [p \in Procs |-> [IdleProc EXCEPT !.task = ConcTask(p)]]
    /\ hashes = <<>>
    /\ tmp = NoTmpFiles
    /\ rounds = <<>>
    /\ guard = <<>>

concFrame == <<summary, verdict, mtime, faults, ret, hashes, rounds, guard>>
\* The temp files and what the other steps leave alone.
concFiles == <<tmp, concFrame>>

ConcTick ==
    /\ now < MaxConcTime
    /\ \A p \in Procs : ~InCall(p)
    /\ now' = now + 1
    /\ UNCHANGED <<index, lock, procs, concFiles>>

\* The process after a lock cycle that ended with status: the invalidation
\* of find is followed by the scan, the write-back of find by the return
\* of the hit, and a remember call returns its stats.
AfterCycle(pr, status) ==
    IF pr.phase = "inval"
    THEN [pr EXCEPT !.pc = "scan", !.fd = FALSE]
    ELSE [pr EXCEPT !.pc = "done", !.fd = FALSE,
                    !.res = IF pr.op = "find" THEN "hit" ELSE status]

\* The run has its result and writes summary.json and verdict.json into
\* its output directory.
WriteOutputs(p) ==
    /\ procs[p].pc = "idle"
    /\ ~(/\ SummaryMatches(summary[ProcDir(p)], "h1")
          /\ verdict[ProcDir(p)] = "valid")
    /\ summary' = [summary EXCEPT
                     ![ProcDir(p)] = [kind |-> "dict", status |-> "ok",
                                      input_hash |-> "h1"]]
    /\ verdict' = [verdict EXCEPT ![ProcDir(p)] = "valid"]
    /\ mtime' = [mtime EXCEPT ![ProcDir(p)] = now]
    /\ UNCHANGED <<now, index, lock, faults, ret, procs, hashes, tmp, rounds, guard>>

\* remember_reusable_ok_result_with_stats is called after the outputs were
\* written with status ok; its first statement that touches the file
\* system is the mkdir of _acquire_reuse_lock.
CallRemember(p, logs_root) ==
    /\ procs[p].pc = "idle"
    /\ SummaryMatches(summary[ProcDir(p)], "h1")
    /\ verdict[ProcDir(p)] = "valid"
    /\ procs' = [procs EXCEPT ![p].pc = "mkdir", ![p].op = "remember",
                              ![p].root = logs_root,
                              ![p].phase = "remember",
                              ![p].dir = ProcDir(p)]
    /\ UNCHANGED <<now, index, lock, concFiles>>

\* find_reusable_ok_result is called on the logs root, which exists.
CallFind(p, cur) ==
    /\ procs[p].pc = "idle"
    /\ procs' = [procs EXCEPT ![p].pc = "findload", ![p].op = "find",
                              ![p].root = "logs", ![p].cur = cur]
    /\ UNCHANGED <<now, index, lock, concFiles>>

\* index_obj = _load_reuse_index(logs_root) with no lock held, and the
\* direct index path on the entry under the key.
FindLoad(p) ==
    /\ procs[p].pc = "findload"
    /\ LET ld == LoadReuseIndex(index, procs[p].root)
           outcome == IndexedOutcome(GetKey(ld.entries, ProcKey(p)), "h1",
                                     procs[p].root, OutDir(procs[p].cur))
       IN procs' =
            IF ld.raised
            THEN [procs EXCEPT ![p].pc = "done", ![p].res = "raise"]
            ELSE IF ~HasKey(ld.entries, ProcKey(p))
            THEN [procs EXCEPT ![p].pc = "scan",
                               ![p].snapshot = ld.entries]
            ELSE IF outcome = "hit"
            THEN [procs EXCEPT ![p].pc = "done", ![p].res = "hit",
                               ![p].snapshot = ld.entries]
            ELSE IF outcome = "raise"
            THEN [procs EXCEPT ![p].pc = "done", ![p].res = "raise",
                               ![p].snapshot = ld.entries]
            ELSE [procs EXCEPT ![p].pc = "mkdir", ![p].phase = "inval",
                               ![p].snapshot = ld.entries]
    /\ UNCHANGED <<now, index, lock, concFiles>>

\* logs_root.mkdir(parents=True, exist_ok=True): outside every try block,
\* so what it raises leaves _acquire_reuse_lock and the call.
AcquireMkdir(p) ==
    /\ procs[p].pc = "mkdir"
    /\ procs' = IF MkdirRaises(procs[p].root)
                THEN [procs EXCEPT ![p].pc = "done", ![p].res = "raise"]
                ELSE [procs EXCEPT ![p].pc = "while", ![p].sleeps = 0]
    /\ UNCHANGED <<now, index, lock, concFiles>>

\* while time.monotonic() < deadline; past the deadline the acquire
\* returns None.
AcquireWhile(p) ==
    /\ procs[p].pc = "while"
    /\ procs' = IF procs[p].sleeps < REUSE_INDEX_LOCK_TIMEOUT_SLEEPS
                THEN [procs EXCEPT ![p].pc = "open"]
                ELSE [procs EXCEPT ![p] = AfterCycle(@, "nolock")]
    /\ UNCHANGED <<now, index, lock, concFiles>>

\* os.open(lock_path, O_CREAT | O_EXCL | O_WRONLY)
AcquireOpen(p) ==
    /\ procs[p].pc = "open"
    /\ IF lock.present
       THEN /\ procs' = [procs EXCEPT ![p].pc = "stat"]
            /\ UNCHANGED lock
       ELSE /\ lock' = [present |-> TRUE, owner |-> p, mtime |-> now]
            /\ procs' = [procs EXCEPT ![p].pc = "oswrite"]
    /\ UNCHANGED <<now, index, concFiles>>

\* os.write(fd, ...) into the lock file just created.  When it raises
\* (a full disk, an I/O error) the handler of Exception returns None and
\* the lock file stays.
AcquireWrite(p, fails) ==
    /\ procs[p].pc = "oswrite"
    /\ fails => faults < MaxFaults
    /\ faults' = IF fails THEN faults + 1 ELSE faults
    /\ procs' = IF fails
                THEN [procs EXCEPT ![p] = AfterCycle(@, "nolock")]
                ELSE [procs EXCEPT ![p].pc = "load", ![p].fd = TRUE,
                                   ![p].fresh = FALSE]
    /\ UNCHANGED <<now, index, lock, summary, verdict, mtime, ret, hashes, tmp, rounds, guard>>

\* lock_path.stat() and the comparison of the age; a lock file that is
\* gone by now makes stat raise, which is swallowed.
AcquireStat(p) ==
    /\ procs[p].pc = "stat"
    /\ procs' = IF lock.present /\ IsStale(lock, now)
                THEN [procs EXCEPT ![p].pc = "unlink"]
                ELSE [procs EXCEPT ![p].pc = "sleep"]
    /\ UNCHANGED <<now, index, lock, concFiles>>

\* lock_path.unlink(missing_ok=True): removes the lock file that is there
\* now.
AcquireUnlink(p) ==
    /\ procs[p].pc = "unlink"
    /\ lock' = NoLock
    /\ procs' = [procs EXCEPT ![p].pc = "sleep"]
    /\ UNCHANGED <<now, index, concFiles>>

\* time.sleep(0.05)
AcquireSleep(p) ==
    /\ procs[p].pc = "sleep"
    /\ procs' = [procs EXCEPT ![p].pc = "while", ![p].sleeps = @ + 1]
    /\ UNCHANGED <<now, index, lock, concFiles>>

\* _load_reuse_index(logs_root) inside the try block of either lock cycle.
RememberLoad(p) ==
    /\ procs[p].pc = "load"
    /\ LET ld == LoadReuseIndex(index, procs[p].root)
       IN procs' = IF ld.raised
                   THEN [procs EXCEPT ![p].pc = "release",
                                      ![p].res = "loadraise"]
                   ELSE [procs EXCEPT ![p].pc = "write",
                                      ![p].loaded = ld.entries,
                                      ![p].fresh = TRUE]
    /\ UNCHANGED <<now, index, lock, concFiles>>

\* The entries the invalidation pops the key from: latest_entries, loaded
\* under the lock.
InvalidateSource(pr) == pr.loaded

\* What the write of the lock cycle of process p puts into the index file
\* at time t.
CycleContent(p, pr, t) ==
    LET item == NewEntry(ProcTask(p), "h1", "v1", "host-safe", pr.root,
                         SummaryPathOf(pr.dir), VerdictPathOf(pr.dir), t)
        mutated == IF pr.phase = "inval"
                   THEN PopKey(InvalidateSource(pr), ProcKey(p))
                   ELSE Upsert(pr.loaded, item)
    IN WriteReuseIndex(PruneReuseIndexEntries(mutated, t, pr.root).entries)

\* The temp file of _write_reuse_index: named after the index file and
\* os.getpid(), which no two live processes share.
TmpName_Shared(p) == <<"tmp", "p1">>
TmpName(p) == <<"tmp", p>>

\* entries[key] = item, the prune, and the start of _write_reuse_index:
\* write_text opens the temp file, which is empty until the text is in.
RememberWrite(p) ==
    /\ procs[p].pc = "write"
    /\ procs[p].phase = "remember"
    /\ procs' = [procs EXCEPT ![p].pc = "tmpwrite",
                              ![p].content = CycleContent(p, procs[p], now)]
    /\ tmp' = [tmp EXCEPT ![TmpName(p)] = [state |-> "partial",
                                           content |-> AbsentIndex]]
    /\ UNCHANGED <<now, index, lock, concFrame>>

\* latest_entries.pop(key, None), the prune, and the start of
\* _write_reuse_index.
InvalidateWrite(p) ==
    /\ procs[p].pc = "write"
    /\ procs[p].phase = "inval"
    /\ procs' = [procs EXCEPT ![p].pc = "tmpwrite",
                              ![p].content = CycleContent(p, procs[p], now)]
    /\ tmp' = [tmp EXCEPT ![TmpName(p)] = [state |-> "partial",
                                           content |-> AbsentIndex]]
    /\ UNCHANGED <<now, index, lock, concFrame>>

\* write_text puts the whole text into the temp file and closes it.
WriteTmpText(p) ==
    /\ procs[p].pc = "tmpwrite"
    /\ procs' = [procs EXCEPT ![p].pc = "rename"]
    /\ tmp' = [tmp EXCEPT ![TmpName(p)] = [state |-> "complete",
                                           content |-> procs[p].content]]
    /\ UNCHANGED <<now, index, lock, concFrame>>

\* tmp.replace(path): the index file becomes what the temp file holds at
\* that moment, a text cut short being no JSON.  A temp file that is gone
\* makes replace raise, which ends the try block without a write.
WriteRename(p) ==
    /\ procs[p].pc = "rename"
    /\ index' = IF tmp[TmpName(p)].state = "absent" THEN index
                ELSE IF tmp[TmpName(p)].state = "partial"
                THEN [kind |-> "garbage", entries |-> <<>>]
                ELSE tmp[TmpName(p)].content
    /\ tmp' = [tmp EXCEPT ![TmpName(p)] = NoTmp]
    /\ procs' = IF tmp[TmpName(p)].state = "absent"
                THEN [procs EXCEPT ![p].pc = "release", ![p].res = "wraise"]
                ELSE IF procs[p].phase = "inval"
                THEN [procs EXCEPT ![p].pc = "release", ![p].inval = TRUE]
                ELSE [procs EXCEPT ![p].pc = "release", ![p].res = "wrote"]
    /\ UNCHANGED <<now, lock, concFrame>>

\* _release_reuse_lock in the finally block: os.close(fd) and
\* unlink(missing_ok=True) of the lock path.
ReleaseUnlink(p) ==
    /\ procs[p].pc = "release"
    /\ lock' = NoLock
    /\ procs' = [procs EXCEPT ![p] = AfterCycle(@, @.res)]
    /\ UNCHANGED <<now, index, concFiles>>

\* The fallback scan, and the call of remember on its best match.
FindScan(p, pick) ==
    /\ procs[p].pc = "scan"
    /\ LET best == ScanBest(ProcTask(p), "h1", procs[p].root,
                            OutDir(procs[p].cur))
       IN /\ pick \in best \/ (best = {} /\ pick = ProcDir(p))
          /\ procs' =
               IF ScanRaises(ProcTask(p), procs[p].root, OutDir(procs[p].cur))
               THEN [procs EXCEPT ![p].pc = "done", ![p].res = "raise"]
               ELSE IF best = {}
               THEN [procs EXCEPT ![p].pc = "done", ![p].res = "miss"]
               ELSE [procs EXCEPT ![p].pc = "mkdir",
                                  ![p].phase = "remember",
                                  ![p].dir = pick]
    /\ UNCHANGED <<now, index, lock, concFiles>>

ConcNext ==
    \/ ConcTick
    \/ \E p \in Procs : \E logs_root \in ProcRoots(p) :
          CallRemember(p, logs_root)
    \/ \E p \in Procs : WriteOutputs(p)
    \/ \E p \in Procs, cur \in {"dA", "dB", NewDir} :
          (cur \in {ProcDir(p), NewDir}) /\ CallFind(p, cur)
    \/ \E p \in Procs : FindLoad(p)
    \/ \E p \in Procs : AcquireMkdir(p)
    \/ \E p \in Procs : AcquireWhile(p)
    \/ \E p \in Procs : AcquireOpen(p)
    \/ \E p \in Procs, fails \in BOOLEAN : AcquireWrite(p, fails)
    \/ \E p \in Procs : AcquireStat(p)
    \/ \E p \in Procs : AcquireUnlink(p)
    \/ \E p \in Procs : AcquireSleep(p)
    \/ \E p \in Procs : RememberLoad(p)
    \/ \E p \in Procs : RememberWrite(p)
    \/ \E p \in Procs : InvalidateWrite(p)
    \/ \E p \in Procs : WriteTmpText(p)
    \/ \E p \in Procs : WriteRename(p)
    \/ \E p \in Procs : ReleaseUnlink(p)
    \/ \E p \in Procs, pick \in Dirs : FindScan(p, pick)

ConcSpec == ConcInit /\ [][ConcNext]_vars

\* C4 (no lost entries between writers), as claimed: when the two remember
\* calls for different lookup keys have both obtained the lock and written
\* the index, both entries are in the index file.
C4_NoLostEntries ==
    (\A p \in Procs : procs[p].pc = "done" /\ procs[p].res = "wrote")
    => \A p \in Procs : HasKey(LoadReuseIndex(index, "logs").entries, ProcKey(p))

\* C8 (lock acquisition terminates and never raises), as claimed: no call
\* ends with an exception of _acquire_reuse_lock.
C8_AcquireNeverRaises ==
    \A p \in Procs : procs[p].res # "raise"

\* C15 (mutual exclusion of the lock), as claimed: at most one process at
\* a time is between a successful acquire and its release.
C15_MutualExclusion ==
    Cardinality({p \in Procs : procs[p].fd}) <= 1

\* C16 (every index write happens under the lock and from a fresh load),
\* as claimed: a process that is about to write the index file holds the
\* lock, that is, the lock file in the logs root is the one it created,
\* and the entries it writes from were loaded after it obtained the lock.
C16_WritesUnderLock ==
    \A p \in Procs :
       procs[p].pc \in {"write", "tmpwrite", "rename"} =>
          /\ procs[p].fd
          /\ procs[p].fresh
          /\ lock.present
          /\ lock.owner = p

\* Within one writer the order is kept: every step that writes the index
\* file is the write of a lock cycle whose acquire succeeded and whose
\* release is still to come, and what it writes is computed from the
\* entries loaded in that cycle.
WritesFollowLoadInCycle ==
    [][/\ index' # index =>
             \E p \in Procs : procs[p].pc = "rename" /\ procs'[p].pc = "release"
       /\ \A p \in Procs :
             (procs[p].pc = "rename" /\ procs'[p].pc = "release") =>
                /\ procs[p].fd
                /\ procs[p].fresh
                /\ index' = WriteReuseIndex(
                      PruneReuseIndexEntries(
                         IF procs[p].phase = "inval"
                         THEN PopKey(procs[p].loaded, ProcKey(p))
                         ELSE Upsert(procs[p].loaded,
                                     NewEntry(ProcTask(p), "h1", "v1",
                                              "host-safe", procs[p].root,
                                              SummaryPathOf(procs[p].dir),
                                              VerdictPathOf(procs[p].dir),
                                              now)),
                         now, procs[p].root).entries)]_vars

\* C17 (the owner always releases the lock), as claimed: no call has
\* returned while the lock file it created is in the logs root.
C17_OwnerReleases ==
    \A p \in Procs :
       procs[p].pc = "done" => ~(lock.present /\ lock.owner = p)

---------------------------------------------------------------------------
\* Further properties of the single-caller system.

\* C11 (find never raises on cache problems), as claimed: whatever the
\* index file, the lock file and the summary and verdict files hold, a
\* find call returns a hit or a miss with its stats and lets no exception
\* through.
C11_FindNeverRaises ==
    ret.op = "find" => ret.outcome \in {"hit", "miss"}

\* C12 (stats are additive, never overwritten).  The pruned count and the
\* lock wait a find call returns are the sums over its lock cycles (the
\* invalidation of a stale entry and the write-back of a scan hit), and
\* apply_reuse_stats leaves in the run summary the sum of its counters and
\* those of the call and the disjunction of the flags, so that no counter
\* decreases and no flag is cleared.
C12_StatsAdditive ==
    /\ (ret.op = "find" /\ ret.outcome # "raise")
       => /\ ret.stats.reuse_index_pruned_count
               = ret.invStats.pruned_count + ret.wbStats.pruned_count
          /\ ret.stats.reuse_index_lock_wait_ms
               = ret.invStats.wait_ms + ret.wbStats.wait_ms
    /\ (ret.op # "none" /\ ret.outcome # "raise")
       => /\ ret.applied.reuse_index_pruned_count
               = ret.appliedTo.reuse_index_pruned_count
                 + ret.stats.reuse_index_pruned_count
          /\ ret.applied.reuse_index_lock_wait_ms
               = ret.appliedTo.reuse_index_lock_wait_ms
                 + ret.stats.reuse_index_lock_wait_ms
          /\ ret.applied.reuse_index_hit
               = (ret.appliedTo.reuse_index_hit \/ ret.stats.reuse_index_hit)
          /\ ret.applied.reuse_index_fallback_scan
               = (ret.appliedTo.reuse_index_fallback_scan
                  \/ ret.stats.reuse_index_fallback_scan)

\* A find call went through both lock cycles and waited in each, and its
\* stats were added to the run summary.
C12_Witness ==
    /\ ret.op = "find"
    /\ ret.inval # "none"
    /\ ret.write # "none"
    /\ ret.invStats.wait_ms > 0
    /\ ret.wbStats.wait_ms > 0
    /\ ret.applied.reuse_index_lock_wait_ms
         = ret.invStats.wait_ms + ret.wbStats.wait_ms

---------------------------------------------------------------------------
\* The explain system: results are remembered, their summaries carry the
\* runtime-code fingerprint of the run that wrote them, files are spoilt or
\* deleted, and explain_reuse_miss is asked about a target.

ExplainSummaries ==
    [kind : {"dict"}, status : {"ok"}, input_hash : {"h1"},
     runtime_code_fingerprint : {"", "f1"}]

ExplainInit ==
    /\ now = 0
    /\ index = AbsentIndex
    /\ lock = NoLock
    /\ summary \in [Dirs -> ExplainSummaries]
    /\ verdict = [d \in Dirs |-> "valid"]
    /\ mtime = [d \in Dirs |-> 0]
    /\ faults = 0
    /\ ret = NoRet
    /\ procs = <<>>
    /\ hashes = <<>>
    /\ tmp = <<>>
    /\ rounds = <<>>
    /\ guard = <<>>

\* The call of explain_reuse_miss after a miss.  It changes no file, so a
\* second call in a row would return what the first returned.
Explain(task_id, input_hash, prompt_version, security_profile, runtime_code_fingerprint, sample_limit) ==
    /\ ret.op # "explain"
    /\ ret' = [NoRet EXCEPT
                 !.op = "explain", !.root = "logs",
                 !.task_id = task_id, !.input_hash = input_hash,
                 !.prompt_version = prompt_version,
                 !.security_profile = security_profile,
                 !.explain = ExplainReuseMiss(
                     index, "logs", task_id, input_hash, prompt_version,
                     security_profile, runtime_code_fingerprint,
                     sample_limit)]
    /\ UNCHANGED <<now, index, lock, summary, verdict, mtime, faults, procs, hashes, tmp, rounds, guard>>

\* A summary is overwritten with text that is no JSON, or with JSON that is
\* no object.
SpoilSummary(d, kind) ==
    /\ faults < MaxFaults
    /\ summary[d].kind = "dict"
    /\ summary' = [summary EXCEPT
                     ![d] = [kind |-> kind, status |-> "", input_hash |-> ""]]
    /\ faults' = faults + 1
    /\ ret' = NoRet
    /\ UNCHANGED <<now, index, lock, verdict, mtime, procs, hashes, tmp, rounds, guard>>

ExplainNext ==
    \/ \E k \in PruneKeys, p \in Profiles : \E d \in OwnDirs(k[1]) :
          /\ now < MaxExplainTime
          /\ Remember(k[1], k[2], k[3], p, "logs", d, FALSE)
    \/ \E t \in Tasks, h \in Hashes, v \in Versions, p \in SecurityProfiles,
          fp \in Fingerprints, limit \in SampleLimits :
          Explain(t, h, v, p, fp, limit)
    \/ \E d \in Dirs, kind \in {"garbage", "nondict"} : SpoilSummary(d, kind)
    \/ \E d \in Dirs : DeleteResult(d)
    \/ \E kind \in IndexKinds \ {"ok"} : DamageIndex(kind)

ExplainSpec == ExplainInit /\ [][ExplainNext]_vars

\* The entries of the index file as explain_reuse_miss finds them, the
\* same-task entries among them, and membership in the returned list.
RetIndexEntries == IF index.kind = "ok" THEN index.entries ELSE <<>>
RetSameTask ==
    {i \in DOMAIN RetIndexEntries : RetIndexEntries[i].task_id = ret.task_id}
RetLists(dim) ==
    \E j \in DOMAIN ret.explain.mismatch_dimensions :
       ret.explain.mismatch_dimensions[j] = dim
ExplainOrder ==
    <<"input_hash", "prompt_version", "security_profile",
      "runtime_code_fingerprint">>
RetInOrder ==
    \E pos \in [DOMAIN ret.explain.mismatch_dimensions -> DOMAIN ExplainOrder] :
       /\ \A j \in DOMAIN pos :
             ExplainOrder[pos[j]] = ret.explain.mismatch_dimensions[j]
       /\ \A j, k \in DOMAIN pos : j < k => pos[j] < pos[k]
RetDimensionsRight ==
    IF RetSameTask = {}
    THEN ret.explain.mismatch_dimensions = <<"task_id">>
    ELSE /\ ~RetLists("task_id")
         /\ RetLists("input_hash") <=>
               \A i \in RetSameTask :
                  RetIndexEntries[i].input_hash # ret.input_hash
         /\ RetLists("prompt_version") <=>
               \A i \in RetSameTask :
                  RetIndexEntries[i].prompt_version # ret.prompt_version
         /\ RetLists("security_profile") <=>
               \A i \in RetSameTask :
                  RetIndexEntries[i].security_profile # ret.security_profile
         /\ RetInOrder

---------------------------------------------------------------------------
\* The input fingerprint and its hash.  A str is a sequence of characters,
\* a dict is the sequence of its <<key, value>> pairs in insertion order,
\* and the text json.dumps writes is a sequence of tokens.

RECURSIVE LStrip(_), RStrip(_), JoinTokens(_), SortKeys(_)

LStrip(s) == IF s # <<>> /\ Head(s) = " " THEN LStrip(Tail(s)) ELSE s
RStrip(s) ==
    IF s # <<>> /\ s[Len(s)] = " " THEN RStrip(SubSeq(s, 1, Len(s) - 1)) ELSE s
\* str.strip()
Strip(s) == RStrip(LStrip(s))

\* The keys that occur, in the order sort_keys puts them.
KeyOrder ==
    <<"acceptance_by_view", "back", "details", "gameplay", "id",
      "prompt_version", "runtime_code_fingerprint", "security_profile",
      "subtasks", "task_id", "test_strategy", "title">>
KeyRank(key) == CHOOSE i \in DOMAIN KeyOrder : KeyOrder[i] = key

\* The pairs of a dict left in insertion order.
SortKeys_InsertionOrder(pairs) == pairs

InsertKey(pair, sorted) ==
    LET before == {i \in DOMAIN sorted : KeyRank(sorted[i][1]) < KeyRank(pair[1])}
    IN SubSeq(sorted, 1, Cardinality(before))
       \o <<pair>>
       \o SubSeq(sorted, Cardinality(before) + 1, Len(sorted))

\* sort_keys=True: the pairs of a dict ordered by key.
SortKeys(pairs) ==
    IF pairs = <<>> THEN <<>> ELSE InsertKey(Head(pairs), SortKeys(Tail(pairs)))

\* The items of a list or the members of an object, separated by commas.
JoinTokens(items) ==
    IF items = <<>> THEN <<>>
    ELSE IF Len(items) = 1 THEN Head(items)
    ELSE Head(items) \o <<",">> \o JoinTokens(Tail(items))

JsonStr(s) == <<"\"">> \o s \o <<"\"">>
JsonList(items) == <<"[">> \o JoinTokens(items) \o <<"]">>
\* An object of pairs <<key, tokens of the value>>.
JsonObject(pairs) ==
    LET sorted == SortKeys(pairs)
    IN <<"{">>
       \o JoinTokens([i \in DOMAIN sorted |->
                        <<"\"", sorted[i][1], "\"", ":">> \o sorted[i][2]])
       \o <<"}">>

\* A dict of str values, a list of such dicts, a list of strs, a dict of
\* such lists.
JsonStrDict(d) == JsonObject([i \in DOMAIN d |-> <<d[i][1], JsonStr(d[i][2])>>])
JsonSubtasks(l) == JsonList([i \in DOMAIN l |-> JsonStrDict(l[i])])
JsonStrList(l) == JsonList([i \in DOMAIN l |-> JsonStr(l[i])])
JsonAcceptance(d) ==
    JsonObject([i \in DOMAIN d |-> <<d[i][1], JsonStrList(d[i][2])>>])

\* build_obligations_input_fingerprint: the payload, a dict with these
\* keys inserted in this order.
BuildObligationsInputFingerprint(in) ==
    [prompt_version |-> Strip(in.prompt_version),
     runtime_code_fingerprint |-> Strip(in.runtime_code_fingerprint),
     task_id |-> Strip(in.task_id),
     title |-> Strip(in.title),
     details |-> in.details,
     test_strategy |-> in.test_strategy,
     subtasks |-> in.subtasks,
     acceptance_by_view |-> in.acceptance_by_view,
     security_profile |-> Strip(in.security_profile)]

\* json.dumps(payload, sort_keys=True, separators=(",", ":"))
JsonDumps(payload) ==
    JsonObject(<<
      <<"prompt_version", JsonStr(payload.prompt_version)>>,
      <<"runtime_code_fingerprint", JsonStr(payload.runtime_code_fingerprint)>>,
      <<"task_id", JsonStr(payload.task_id)>>,
      <<"title", JsonStr(payload.title)>>,
      <<"details", JsonStr(payload.details)>>,
      <<"test_strategy", JsonStr(payload.test_strategy)>>,
      <<"subtasks", JsonSubtasks(payload.subtasks)>>,
      <<"acceptance_by_view", JsonAcceptance(payload.acceptance_by_view)>>,
      <<"security_profile", JsonStr(payload.security_profile)>> >>)

\* hashlib.sha256(body).hexdigest(): a function of the body, taken to be
\* free of collisions.
Sha256(body) == <<"sha256">> \o body

\* build_input_hash
BuildInputHash(payload) == Sha256(JsonDumps(payload))

\* The inputs of the runs: dicts with their keys in either insertion order.
SubtaskDicts ==
    {<< <<"id", <<"1">>>>, <<"title", <<"x">>>> >>,
     << <<"title", <<"x">>>>, <<"id", <<"1">>>> >>}
SubtaskLists == {<<>>} \cup {<<d>> : d \in SubtaskDicts}
AcceptanceDicts ==
    {<<>>,
     << <<"back", <<<<"a">>>> >> >>,
     << <<"gameplay", <<<<"b">>>> >> >>,
     << <<"back", <<<<"a">>>> >>, <<"gameplay", <<<<"b">>>> >> >>,
     << <<"gameplay", <<<<"b">>>> >>, <<"back", <<<<"a">>>> >> >>}
FingerprintInputs ==
    [prompt_version : {<<"v">>},
     runtime_code_fingerprint : {<<"f">>},
     task_id : Tasks,
     title : {<<"t">>, <<"t", " ">>},
     details : {<<"d">>},
     test_strategy : {<<"s">>},
     subtasks : SubtaskLists,
     acceptance_by_view : AcceptanceDicts,
     security_profile : {<<"h">>}]

NoHash == [called |-> FALSE, in |-> <<>>, digest |-> <<>>]

FingerprintInit ==
    /\ now = 0
    /\ index = AbsentIndex
    /\ lock = NoLock
    /\ summary = [d \in Dirs |-> NoSummary]
    /\ verdict = [d \in Dirs |-> "absent"]
    /\ mtime = [d \in Dirs |-> 0]
    /\ faults = 0
    /\ ret = NoRet
    /\ procs = <<>>
    /\ hashes = [p \in Procs |-> NoHash]
    /\ tmp = <<>>
    /\ rounds = <<>>
    /\ guard = <<>>

\* A run of the script in process p builds the fingerprint of its task and
\* hashes it.
BuildHash(p, in) ==
    /\ hashes' = [hashes EXCEPT
                    ![p] = [called |-> TRUE, in |-> in,
                            digest |-> BuildInputHash(
                                BuildObligationsInputFingerprint(in))]]
    /\ UNCHANGED <<now, index, lock, summary, verdict, mtime, faults, ret, procs, tmp, rounds, guard>>

FingerprintNext == \E p \in Procs, in \in FingerprintInputs : BuildHash(p, in)

FingerprintSpec == FingerprintInit /\ [][FingerprintNext]_vars

\* Equality of two inputs as Python compares them: strs and lists item by
\* item, dicts as sets of pairs whatever their insertion order.
DictItems(d) == {d[i] : i \in DOMAIN d}
SameInputs(a, b) ==
    /\ a.prompt_version = b.prompt_version
    /\ a.runtime_code_fingerprint = b.runtime_code_fingerprint
    /\ a.task_id = b.task_id
    /\ a.title = b.title
    /\ a.details = b.details
    /\ a.test_strategy = b.test_strategy
    /\ a.security_profile = b.security_profile
    /\ Len(a.subtasks) = Len(b.subtasks)
    /\ \A i \in DOMAIN a.subtasks :
          DictItems(a.subtasks[i]) = DictItems(b.subtasks[i])
    /\ DictItems(a.acceptance_by_view) = DictItems(b.acceptance_by_view)

\* C14: two calls on equal inputs, in the same or in different processes,
\* yield the same digest whatever the insertion order of the keys of the
\* dicts in the inputs.
C14_FingerprintDeterminism ==
    \A p, q \in Procs :
       (/\ hashes[p].called
        /\ hashes[q].called
        /\ SameInputs(hashes[p].in, hashes[q].in))
       => hashes[p].digest = hashes[q].digest

\* Two processes hashed equal inputs whose dicts were filled in different
\* orders, and got one digest.
C14_Witness ==
    /\ hashes["p1"].called
    /\ hashes["p2"].called
    /\ SameInputs(hashes["p1"].in, hashes["p2"].in)
    /\ Len(hashes["p1"].in.acceptance_by_view) = 2
    /\ hashes["p1"].in.acceptance_by_view # hashes["p2"].in.acceptance_by_view
    /\ hashes["p1"].in.subtasks # hashes["p2"].in.subtasks
    /\ hashes["p1"].digest = hashes["p2"].digest

\* C19 (the fallback scan returns only outputs of the requested task id),
\* as claimed: the directory of a hit that came through the scan is an
\* output directory of the task id the find was called with.
C19_ScanOnlySameTask ==
    (ret.op = "find" /\ ret.outcome = "hit" /\ ret.via = "scan")
       => DirSuffix(ret.hitDir) = ret.task_id

\* C20 (a find never reuses the caller's own output).  No hit of a find,
\* through the index or through the scan, has its verdict file in the
\* directory passed as current_out_dir.
C20_NeverOwnOutput ==
    (ret.op = "find" /\ ret.outcome = "hit")
       => /\ OutDir(ret.hitDir) # OutDir(ret.dir)
          /\ PathParent(VerdictPathOf(ret.hitDir)) # OutDir(ret.dir)

\* A find returned a hit while the caller's own directory held a result
\* with the requested hash, a valid verdict, and a verdict file no older
\* than that of the hit.
C20_Witness ==
    /\ ret.op = "find"
    /\ ret.outcome = "hit"
    /\ ret.dir \in Dirs
    /\ ret.hitDir # ret.dir
    /\ SummaryMatches(summary[ret.dir], ret.input_hash)
    /\ ValidateVerdictSchema(VerdictObj(ret.dir)).valid
    /\ mtime[ret.dir] >= mtime[ret.hitDir]

\* C21 (most recent match wins in the scan).  A hit that came through the
\* scan is a match whose verdict file has the greatest modification time
\* of all matches, and when the write-back wrote the index, the entry
\* under the lookup key points to that match.
C21_MostRecentMatchWins ==
    (ret.op = "find" /\ ret.outcome = "hit" /\ ret.via = "scan")
       => /\ ret.hitDir \in RetScanMatches
          /\ \A d \in RetScanMatches : mtime[ret.hitDir] >= mtime[d]
          /\ ret.write = "wrote" => RetHasEntry /\ RetEntryDir = ret.hitDir

\* The scan had two matches of different mtime, returned the newer one and
\* wrote it back.
C21_Witness ==
    /\ ret.op = "find"
    /\ ret.outcome = "hit"
    /\ ret.via = "scan"
    /\ ret.write = "wrote"
    /\ \E d \in RetScanMatches : mtime[d] < mtime[ret.hitDir]
    /\ RetEntryDir = ret.hitDir

\* The entry under the lookup key of the returned find passes every test
\* of the direct index path.
RetEntryUsable ==
    /\ ret.hadEntry
    /\ ret.entryDir \in Dirs
    /\ OutDir(ret.entryDir) # OutDir(ret.dir)
    /\ SummaryMatches(summary[ret.entryDir], ret.input_hash)
    /\ verdict[ret.entryDir] \notin {"absent", "garbage"}
    /\ ValidateVerdictSchema(VerdictObj(ret.entryDir)).valid

\* C22 (the fast path is lock-free and read-only).  A find that returns a
\* hit from the index, or that finds no entry under the key and no scan
\* match, runs no lock cycle and leaves the index file and the lock file
\* as they were; a find runs the invalidation cycle only on an entry that
\* fails a test of the direct path, and the write-back cycle only after a
\* scan match.
C22_FastPathLockFree ==
    [][ret'.op = "find" =>
         /\ (\/ ret'.outcome = "hit" /\ ret'.via = "index"
             \/ ret'.outcome = "miss" /\ ~ret'.hadEntry)
            => /\ ret'.inval = "none"
               /\ ret'.write = "none"
               /\ ret'.stats.reuse_index_lock_wait_ms = 0
               /\ index' = index
               /\ lock' = lock
         /\ ret'.inval # "none" => ret'.hadEntry /\ ~RetEntryUsable'
         /\ ret'.write # "none" => ret'.via = "scan"
         /\ (ret'.inval = "none" /\ ret'.write = "none")
            => index' = index /\ lock' = lock
      ]_vars

\* A find returned a hit from the index while another process held the
\* lock file.
C22_Witness ==
    /\ ret.op = "find"
    /\ ret.outcome = "hit"
    /\ ret.via = "index"
    /\ lock.present
    /\ lock.owner = "other"
    /\ ret.stats.reuse_index_lock_wait_ms = 0

---------------------------------------------------------------------------
\* Two runs of the same task, so both processes use one lookup key.  The
\* index holds the entry under that key and the entry of another task;
\* the verdict the first points to may be invalid.

SameKeyEntries ==
    <<NewEntry(<<"1">>, "h1", "v1", "host-safe", "logs",
               SummaryPathOf("dA"), VerdictPathOf("dA"), 0),
      NewEntry(<<"1", "1">>, "h2", "v1", "host-safe", "logs",
               SummaryPathOf("dB"), VerdictPathOf("dB"), 0)>>

SameKeyInit ==
    /\ now = 0
    /\ index = WriteReuseIndex(SameKeyEntries)
    /\ lock \in {NoLock, [present |-> TRUE, owner |-> "gone", mtime |-> 0]}
    /\ summary = [d \in Dirs |->
                    [kind |-> "dict", status |-> "ok",
                     input_hash |-> IF d = "dA" THEN "h1" ELSE "h2"]]
    /\ verdict \in [Dirs -> {"valid", "invalid"}]
    /\ verdict["dB"] = "valid"
    /\ mtime = [d \in Dirs |-> 0]
    /\ faults = 0
    /\ ret = NoRet
    /\ procs = [p \in Procs |-> [IdleProc EXCEPT !.task = <<"1">>]]
    /\ hashes = <<>>
    /\ tmp = NoTmpFiles
    /\ rounds = <<>>
    /\ guard = <<>>

SameKeySpec == SameKeyInit /\ [][ConcNext]_vars

\* C23 (concurrent invalidation is idempotent).  When two find calls for
\* one key have both returned a miss and the invalidation cycle of at
\* least one of them wrote the index, in whatever interleaving, the index
\* is the one a single invalidation leaves: the entry under the key is
\* gone and the entry of the other task is there.
C23_InvalidationIdempotent ==
    (/\ \A p \in Procs :
           procs[p].pc = "done" /\ procs[p].op = "find" /\ procs[p].res = "miss"
     /\ \E p \in Procs : procs[p].inval)
    => /\ index.kind = "ok"
       /\ Len(index.entries) = 1
       /\ index.entries[1] = SameKeyEntries[2]

\* Both finds ran the invalidation cycle to its write and returned.
C23_Witness ==
    /\ \A p \in Procs :
          /\ procs[p].pc = "done"
          /\ procs[p].op = "find"
          /\ procs[p].res = "miss"
          /\ procs[p].inval
    /\ index.entries = <<SameKeyEntries[2]>>

\* C29 (invalidation never destroys a fresh entry), as claimed: when the
\* invalidation cycle of a find has written the index, and the entry it
\* loaded under the key was not the entry the find had judged stale but
\* one another process had put there since, that entry is in the index
\* written.
C29_InvalidationKeepsFreshEntry ==
    \A p \in Procs :
       (/\ procs[p].pc = "release"
        /\ procs[p].phase = "inval"
        /\ procs[p].inval
        /\ HasKey(procs[p].snapshot, ProcKey(p))
        /\ HasKey(procs[p].loaded, ProcKey(p))
        /\ GetKey(procs[p].loaded, ProcKey(p))
              # GetKey(procs[p].snapshot, ProcKey(p)))
       => index.kind = "ok" /\ HasKey(index.entries, ProcKey(p))

\* ---------------------------------------------------------------------
\* C24
\* The writers that have opened their temp file and not yet renamed it.
C24_Writers == {p \in Procs : procs[p].pc \in {"tmpwrite", "rename"}}
C24_TmpFiles == {n \in DOMAIN tmp : tmp[n].state # "absent"}

\* C24: the index file never holds a partially written text: it changes
\* only by the rename of a writer, and then becomes the complete content
\* that writer built; every writer between opening its temp file and
\* renaming it has a temp file of its own.
C24_AtomicSave ==
    [][ /\ index.kind \in {"absent", "ok"}
        /\ index'.kind \in {"absent", "ok"}
        /\ index' # index =>
             \E p \in Procs : /\ procs[p].pc = "rename"
                              /\ procs'[p].pc = "release"
                              /\ index' = procs[p].content
        /\ Cardinality(C24_TmpFiles') = Cardinality(C24_Writers') ]_vars

\* One process is about to load the index while another has its temp file
\* open with the text not yet in, and the new content differs from the old.
C24_Witness ==
    \E p, q \in Procs :
       /\ p # q
       /\ procs[p].pc = "tmpwrite"
       /\ \E n \in DOMAIN tmp : tmp[n].state = "partial"
       /\ procs[p].content # index
       /\ index.kind = "ok"
       /\ procs[q].pc \in {"findload", "load"}

\* Two writers have their temp files open at once.
C24_TwoWriters == Cardinality(C24_Writers) = 2

\* ---------------------------------------------------------------------
\* C30: a process that leaves _release_reuse_lock never removes a lock
\* file that another process owns at that moment, and a call that holds
\* no lock (fd is None) leaves the lock file as it is.
C30_ReleaseOnlyOwnLock ==
    [][\A p \in Procs :
          /\ (procs[p].pc = "release" /\ procs'[p].pc # "release") =>
                ~(lock.present /\ lock.owner # p /\ ~lock'.present)
          /\ (procs[p].pc = "while" /\ procs'[p].pc \in {"done", "scan"}) =>
                lock' = lock ]_vars

\* ---------------------------------------------------------------------
\* C25
\* The runtime-code fingerprint recorded for entry i of the index: that of
\* the summary its summary_path names, "" when the summary is gone, holds
\* no JSON or predates the field.
RetRecordedFp(i) ==
    LET sm == summary[RetIndexEntries[i].summary_path[1]]
    IN IF sm.kind = "dict" THEN sm.runtime_code_fingerprint ELSE ""
\* The entries explain_reuse_miss samples: the first max(1, sample_limit).
RetSampled ==
    {i \in DOMAIN RetIndexEntries :
        i <= (IF ret.explain.sample_limit < 1 THEN 1 ELSE ret.explain.sample_limit)}
RetFpFlagged ==
    /\ ret.op = "explain"
    /\ ~ret.explain.raised
    /\ RetLists("runtime_code_fingerprint")

\* C25: runtime_code_fingerprint is listed only if the target
\* fingerprint is non-empty, a sampled entry has a recorded fingerprint and
\* no same-task entry's fingerprint equals the target, and entries that
\* predate the field never cause it to be listed: some same-task entry
\* has a recorded fingerprint whenever it is listed.
C25_FingerprintConservative ==
    RetFpFlagged =>
       /\ ret.explain.runtime_code_fingerprint # ""
       /\ \E i \in RetSampled : RetRecordedFp(i) # ""
       /\ \A i \in RetSameTask :
             RetRecordedFp(i) # ret.explain.runtime_code_fingerprint
       /\ \E i \in RetSameTask : RetRecordedFp(i) # ""

\* What the code does list: runtime_code_fingerprint appears exactly when
\* there is a same-task entry, the target fingerprint is non-empty, a
\* sampled entry of any task has a recorded fingerprint and no same-task
\* entry's fingerprint equals the target.
FingerprintFlagExact ==
    (ret.op = "explain" /\ ~ret.explain.raised) =>
       (RetLists("runtime_code_fingerprint") <=>
             /\ RetSameTask # {}
             /\ ret.explain.runtime_code_fingerprint # ""
             /\ \E i \in RetSampled : RetRecordedFp(i) # ""
             /\ \A i \in RetSameTask :
                   RetRecordedFp(i) # ret.explain.runtime_code_fingerprint)

----------------------------------------------------------------------------
\* Pruning by itself: _prune_reuse_index_entries applied to index files
\* whose entries share timestamps, at a given time and with given result
\* files.

MaxTieEntries == 4

\* The keys and rows of those index files: three keys of task 1 and two of
\* task 1.1, each updated at tick 0 or 1.
TieKeys ==
    {<<t, h, v>> \in Tasks \X Hashes \X Versions :
        (t = <<"1">> /\ (h = "h1" \/ v = "v1")) \/ (t # <<"1">> /\ h = "h1")}
TieRows ==
    {NewEntry(k[1], k[2], k[3], "host-safe", "logs",
              SummaryPathOf(IF k[1] = <<"1">> THEN "dA" ELSE "dB"),
              VerdictPathOf(IF k[1] = <<"1">> THEN "dA" ELSE "dB"), t) :
        k \in TieKeys, t \in {0, 1}}
TieEntries ==
    {s \in UNION {[1..n -> TieRows] : n \in 0..MaxTieEntries} :
        \A i, j \in DOMAIN s : i # j => s[i].key # s[j].key}

TieInit ==
    /\ now = 1
    /\ index \in {WriteReuseIndex(s) : s \in TieEntries}
    /\ lock = NoLock
    /\ summary = [d \in Dirs |->
                    [kind |-> "dict", status |-> "ok", input_hash |-> "h1"]]
    /\ verdict = [d \in Dirs |-> "valid"]
    /\ mtime = [d \in Dirs |-> 0]
    /\ faults = 0
    /\ ret = NoRet
    /\ procs = <<>>
    /\ hashes = <<>>
    /\ tmp = <<>>
    /\ rounds = <<>>
    /\ guard = <<>>

\* _prune_reuse_index_entries on the entries of the index file, the result
\* put in its place.
PruneCall ==
    /\ ret.op = "none"
    /\ index.kind = "ok"
    /\ \E r \in {PruneReuseIndexEntries(index.entries, now, "logs")} :
          /\ index' = WriteReuseIndex(r.entries)
          /\ ret' = [NoRet EXCEPT
                       !.op = "prune", !.root = "logs",
                       !.stats.reuse_index_pruned_count = r.pruned_count]
    /\ UNCHANGED <<now, lock, summary, verdict, mtime, faults, procs, hashes, tmp, rounds, guard>>

TieNext ==
    \/ PruneCall
    \/ Tick
    \/ \E d \in Dirs : DeleteResult(d)

TieSpec == TieInit /\ [][TieNext]_vars

\* Row i comes before row j after the sort: it is newer, or as new and
\* earlier in the map.
C26_Before(inp, i, j) ==
    \/ inp[i].updated_at > inp[j].updated_at
    \/ inp[i].updated_at = inp[j].updated_at /\ i < j
C26_Eligible(inp, t) ==
    {i \in DOMAIN inp :
        /\ inp[i].updated_at >= t - REUSE_INDEX_RETENTION_TICKS
        /\ summary[inp[i].summary_path[1]].kind # "absent"
        /\ verdict[inp[i].verdict_path[1]] # "absent"}
C26_PerTask(inp, eligible) ==
    {i \in eligible :
        Cardinality({j \in eligible : /\ inp[j].task_id = inp[i].task_id
                                      /\ C26_Before(inp, j, i)})
           < REUSE_INDEX_MAX_ENTRIES_PER_TASK}
C26_Kept(inp, perTask) ==
    {i \in perTask :
        Cardinality({j \in perTask : C26_Before(inp, j, i)})
           < REUSE_INDEX_MAX_TOTAL_ENTRIES}
C26_Expected(inp, out, count, t) ==
    \A eligible \in {C26_Eligible(inp, t)} :
    \A perTask \in {C26_PerTask(inp, eligible)} :
    \A kept \in {C26_Kept(inp, perTask)} :
       /\ Len(out) = Cardinality(kept)
       /\ \A i \in kept :
             out[1 + Cardinality({j \in kept : C26_Before(inp, j, i)})] = inp[i]
       /\ count = Len(inp) - Len(out)

\* C26: what _prune_reuse_index_entries returns is fixed by the entries in
\* their order in the map, the existence of the result files and the
\* current time: the rows inside the retention window whose files exist
\* are ranked newest first, rows of equal updated_at in the order of the
\* map, the caps keep the first rows of that ranking per task and then in
\* total, and the pruned count is what was dropped.
C26_PruneDeterministic ==
    [][ret'.op = "prune" =>
          C26_Expected(index.entries, index'.entries,
                       ret'.stats.reuse_index_pruned_count, now)]_vars

\* A prune has just cut rows at a cap although every row of the map had
\* its files and the same updated_at as the rows it kept: the index was
\* pruned at tick 1 with no file deleted, so that every row was inside the
\* retention window, and the rows left are all of tick 0, which a newer
\* row would have outranked.
C26_Witness ==
    /\ ret.op = "prune"
    /\ now = 1
    /\ faults = 0
    /\ ret.stats.reuse_index_pruned_count > 0
    /\ Len(index.entries) = REUSE_INDEX_MAX_TOTAL_ENTRIES
    /\ \A i \in DOMAIN index.entries : index.entries[i].updated_at = 0

----------------------------------------------------------------------------
\* The consensus rounds: main derives the round counts from its arguments
\* and run_consensus_rounds runs codex exec once per round.

MaxConsensusRuns == 2
MaxEscalateRuns == 3

\* main: configured_runs, max_runs, auto_escalate_enabled
MainConfiguredRuns(consensus_runs) == Max2(1, consensus_runs)
MainMaxRuns(consensus_runs, escalate_max_runs) ==
    Max2(MainConfiguredRuns(consensus_runs), escalate_max_runs)

\* What one round leaves in run_results, by what codex exec did: a verdict
\* with status ok or fail, a verdict that fails the schema, a last message
\* that holds no JSON object, no last message, a non-zero exit, a timeout.
RoundOutcomes ==
    {"ok", "fail", "schema", "json", "empty", "exec", "timeout"}
RoundResult(outcome) ==
    [rc |-> IF outcome = "timeout" THEN 124
            ELSE IF outcome = "exec" THEN 1 ELSE 0,
     status |-> IF outcome = "ok" THEN "ok" ELSE "fail",
     error |-> IF outcome \in {"empty", "exec", "timeout"}
               THEN "codex_exec_failed_or_empty"
               ELSE IF outcome = "json" THEN "invalid_json"
               ELSE IF outcome = "schema" THEN "invalid_schema_codes"
               ELSE "none"]

\* A list of reasons that leaves out the fail votes.
CollectAutoEscalationReasons_NoFailVote(run_results, force_task) ==
    (IF force_task THEN <<"forced_task">> ELSE <<>>)
    \o (IF \E i \in DOMAIN run_results : run_results[i].rc = 124
        THEN <<"timeout">> ELSE <<>>)

\* collect_auto_escalation_reasons: the reasons in the order they are
\* tested; none repeats, so the final pass over them changes nothing.
CollectAutoEscalationReasons(run_results, force_task) ==
    LET ok_votes ==
            Cardinality({i \in DOMAIN run_results : run_results[i].status = "ok"})
        fail_votes == Len(run_results) - ok_votes
    IN (IF force_task THEN <<"forced_task">> ELSE <<>>)
       \o (IF \E i \in DOMAIN run_results : run_results[i].status # "ok"
           THEN <<"fail_vote">> ELSE <<>>)
       \o (IF \E i \in DOMAIN run_results : run_results[i].rc = 124
           THEN <<"timeout">> ELSE <<>>)
       \o (IF \E i \in DOMAIN run_results : run_results[i].error = "invalid_json"
           THEN <<"invalid_json">> ELSE <<>>)
       \o (IF \E i \in DOMAIN run_results :
                 run_results[i].error = "codex_exec_failed_or_empty"
           THEN <<"exec_or_empty">> ELSE <<>>)
       \o (IF ok_votes > 0 /\ fail_votes > 0 THEN <<"jitter">> ELSE <<>>)

\* The call of run_consensus_rounds as main makes it, before its loop.
ConsensusCalls ==
    {[pc |-> "while",
      configured_runs |-> MainConfiguredRuns(c),
      max_runs |-> MainMaxRuns(c, m),
      auto_escalate_enabled |-> e,
      force_for_task |-> f,
      run |-> 1,
      target_runs |-> Max2(1, MainConfiguredRuns(c)),
      run_results |-> <<>>,
      auto_escalate_triggered |-> FALSE,
      auto_escalate_reasons |-> <<>>] :
        c \in 0..MaxConsensusRuns, m \in 0..MaxEscalateRuns,
        e \in BOOLEAN, f \in BOOLEAN}

ConsensusInit ==
    /\ now = 0
    /\ index = AbsentIndex
    /\ lock = NoLock
    /\ summary = [d \in Dirs |-> NoSummary]
    /\ verdict = [d \in Dirs |-> "absent"]
    /\ mtime = [d \in Dirs |-> 0]
    /\ faults = 0
    /\ ret = NoRet
    /\ procs = <<>>
    /\ hashes = <<>>
    /\ tmp = <<>>
    /\ rounds \in ConsensusCalls
    /\ guard = <<>>

consensusFrame == <<now, index, lock, summary, verdict, mtime, faults, ret, procs, hashes, tmp, guard>>

\* while run <= target_runs: one round of codex exec, its result appended.
RunRound(outcome) ==
    /\ rounds.pc = "while"
    /\ rounds.run <= rounds.target_runs
    /\ rounds' = [rounds EXCEPT
                    !.run_results = Append(@, RoundResult(outcome)),
                    !.run = @ + 1,
                    !.pc = "if"]
    /\ UNCHANGED consensusFrame

\* The test that ends the loop body, with the rounds run not yet at an end:
\* nothing is evaluated.
NoEscalationTest ==
    /\ rounds.pc = "if"
    /\ ~(/\ rounds.run > rounds.target_runs
         /\ rounds.auto_escalate_enabled
         /\ rounds.target_runs < rounds.max_runs)
    /\ rounds' = [rounds EXCEPT !.pc = "while"]
    /\ UNCHANGED consensusFrame

\* The same test once the configured rounds are run: the reasons are
\* collected, and any reason raises target_runs to max_runs.
EvaluateEscalation ==
    /\ rounds.pc = "if"
    /\ rounds.run > rounds.target_runs
    /\ rounds.auto_escalate_enabled
    /\ rounds.target_runs < rounds.max_runs
    /\ \E reasons \in {CollectAutoEscalationReasons(rounds.run_results,
                                                    rounds.force_for_task)} :
          rounds' = IF reasons # <<>>
                    THEN [rounds EXCEPT !.target_runs = rounds.max_runs,
                                        !.auto_escalate_triggered = TRUE,
                                        !.auto_escalate_reasons = reasons,
                                        !.pc = "while"]
                    ELSE [rounds EXCEPT !.pc = "while"]
    /\ UNCHANGED consensusFrame

\* The loop condition fails and the function returns.
ReturnRounds ==
    /\ rounds.pc = "while"
    /\ rounds.run > rounds.target_runs
    /\ rounds' = [rounds EXCEPT !.pc = "done"]
    /\ UNCHANGED consensusFrame

ConsensusNext ==
    \/ \E outcome \in RoundOutcomes : RunRound(outcome)
    \/ NoEscalationTest
    \/ EvaluateEscalation
    \/ ReturnRounds

\* Every round ends: codex exec runs under a timeout.
ConsensusSpec == ConsensusInit /\ [][ConsensusNext]_vars /\ WF_vars(ConsensusNext)

\* The rounds the arguments configure, the results of those rounds, and
\* the reasons they give, each told by its own condition.
C27_Configured == IF rounds.configured_runs < 1 THEN 1 ELSE rounds.configured_runs
C27_FirstRounds == {i \in DOMAIN rounds.run_results : i <= C27_Configured}
C27_Reason(name) ==
    \/ name = "forced_task" /\ rounds.force_for_task
    \/ name = "fail_vote" /\ \E i \in C27_FirstRounds : rounds.run_results[i].status # "ok"
    \/ name = "timeout" /\ \E i \in C27_FirstRounds : rounds.run_results[i].rc = 124
    \/ name = "invalid_json" /\ \E i \in C27_FirstRounds : rounds.run_results[i].error = "invalid_json"
    \/ name = "exec_or_empty" /\ \E i \in C27_FirstRounds : rounds.run_results[i].error = "codex_exec_failed_or_empty"
    \/ name = "jitter" /\ \E i, j \in C27_FirstRounds :
                             /\ rounds.run_results[i].status = "ok"
                             /\ rounds.run_results[j].status # "ok"
C27_ReasonNames ==
    {"forced_task", "fail_vote", "timeout", "invalid_json", "exec_or_empty", "jitter"}
C27_Escalates ==
    /\ rounds.auto_escalate_enabled
    /\ rounds.configured_runs < rounds.max_runs
    /\ \E name \in C27_ReasonNames : C27_Reason(name)
C27_Evaluating ==
    /\ rounds.pc = "if"
    /\ ENABLED EvaluateEscalation
C27_Counts ==
    /\ Len(rounds.run_results) <=
          (IF rounds.auto_escalate_triggered THEN rounds.max_runs ELSE C27_Configured)
    /\ C27_Evaluating =>
          /\ Len(rounds.run_results) = C27_Configured
          /\ ~rounds.auto_escalate_triggered
          /\ rounds.auto_escalate_enabled
          /\ rounds.configured_runs < rounds.max_runs
    /\ rounds.pc = "done" =>
          /\ rounds.auto_escalate_triggered <=> C27_Escalates
          /\ Len(rounds.run_results) =
                (IF C27_Escalates THEN rounds.max_runs ELSE C27_Configured)
          /\ \A name \in C27_ReasonNames :
                (\E k \in DOMAIN rounds.auto_escalate_reasons :
                    rounds.auto_escalate_reasons[k] = name)
                <=> (C27_Escalates /\ C27_Reason(name))

\* C27: run_consensus_rounds returns, after max(1, configured_runs) rounds
\* when escalation does not trigger and after max_runs rounds when it
\* does; escalation is evaluated once, when the configured rounds are run,
\* only with auto-escalate on and configured_runs < max_runs, and it
\* triggers exactly when one of the six reasons holds.
C27_RoundsTerminate == [](C27_Counts) /\ <>(rounds.pc = "done")

\* A call that escalated on a reason other than a forced task has
\* returned, and one that did not escalate.
C27_Witness ==
    /\ rounds.pc = "done"
    /\ rounds.auto_escalate_triggered
    /\ ~rounds.force_for_task
    /\ rounds.configured_runs = 2
    /\ Len(rounds.run_results) = 3
    /\ rounds.run_results[3].status = "ok"
C27_WitnessNoEscalation ==
    /\ rounds.pc = "done"
    /\ rounds.auto_escalate_enabled
    /\ rounds.configured_runs < rounds.max_runs
    /\ ~rounds.auto_escalate_triggered
    /\ Len(rounds.run_results) = rounds.configured_runs

----------------------------------------------------------------------------
\* The deterministic guards on a verdict that has passed
\* validate_verdict_schema: every obligation is an object with a non-empty
\* id, a text, an excerpt and a boolean covered.

MaxObligations == 2
MinObligations == 1

ObligationIds == {"O1", "O2"}
\* What the probe text + excerpt + source of an obligation holds: terms of
\* _ANTI_TAMPER_TERMS ("tamper") and of _HOST_SAFETY_TERMS ("host").
ProbeTerms == {{}, {"tamper"}, {"tamper", "host"}}
\* An obligation of id O1 cites the master task, one of id O2 subtask 1;
\* the excerpt is found in the task text or is not.
GuardObligations ==
    [id : ObligationIds, covered : BOOLEAN, terms : ProbeTerms,
     excerpt : {"found", "notfound"}]
ObligationSource(obligation) ==
    IF obligation.id = "O1" THEN "master" ELSE "subtask:1"

\* _is_anti_tamper_only
IsAntiTamperOnly(terms) == "tamper" \in terms /\ "host" \notin terms

\* The obligation is advisory under every profile.
IsAdvisory_AnyProfile(security_profile, obligation) ==
    IsAntiTamperOnly(obligation.terms)

\* security_profile == "host-safe" and _is_anti_tamper_only(probe)
IsAdvisory(security_profile, obligation) ==
    security_profile = "host-safe" /\ IsAntiTamperOnly(obligation.terms)

\* _dedupe_keep_order on a list of non-empty ids.
RECURSIVE DedupeKeepOrder(_, _)
DedupeKeepOrder(items, out) ==
    IF items = <<>> THEN out
    ELSE IF \E k \in DOMAIN out : out[k] = Head(items)
    THEN DedupeKeepOrder(Tail(items), out)
    ELSE DedupeKeepOrder(Tail(items), Append(out, Head(items)))

InList(list, x) == \E k \in DOMAIN list : list[k] = x

\* The issues the loop over the obligations records for one of them.
ObligationIssues(obligation, subtask_ids) ==
    (IF obligation.excerpt = "notfound"
     THEN <<<<"DET_SOURCE_EXCERPT_NOT_FOUND", obligation.id>>>> ELSE <<>>)
    \o (IF /\ ObligationSource(obligation) # "master"
           /\ ~InList(subtask_ids, "1")
        THEN <<<<"DET_SUBTASK_SOURCE_UNKNOWN", "1">>>> ELSE <<>>)

RECURSIVE LoopIssues(_, _)
LoopIssues(obligations, subtask_ids) ==
    IF obligations = <<>> THEN <<>>
    ELSE ObligationIssues(Head(obligations), subtask_ids)
         \o LoopIssues(Tail(obligations), subtask_ids)

\* The status after the three tests that follow the loops.
GuardStatus_KeepsModel(status, hard_uncovered, advisory_uncovered, det_issues) ==
    status

GuardStatus(status, hard_uncovered, advisory_uncovered, det_issues) ==
    LET promoted == IF /\ status = "fail"
                       /\ hard_uncovered = <<>>
                       /\ advisory_uncovered # <<>>
                       /\ det_issues = <<>>
                    THEN "ok" ELSE status
    IN IF hard_uncovered # <<>> \/ det_issues # <<>> THEN "fail" ELSE promoted

\* apply_deterministic_guards: [status, det_issues, hard_uncovered,
\* advisory_uncovered]
ApplyDeterministicGuards(obj, subtask_ids, min_obligations, security_profile) ==
    LET obligations == obj.obligations
        uncovered == SelectSeq(obligations, LAMBDA o : ~o.covered)
        advisory_rows ==
            SelectSeq(uncovered, LAMBDA o : IsAdvisory(security_profile, o))
        hard_rows ==
            SelectSeq(uncovered, LAMBDA o : ~IsAdvisory(security_profile, o))
        expected_hard == [k \in DOMAIN hard_rows |-> hard_rows[k].id]
        covered_sources ==
            {"1" : i \in {j \in DOMAIN obligations :
                            ObligationSource(obligations[j]) # "master"}}
        declared == DedupeKeepOrder(obj.uncovered_obligation_ids, <<>>)
        hard_uncovered == DedupeKeepOrder(expected_hard, <<>>)
        advisory_uncovered ==
            DedupeKeepOrder([k \in DOMAIN advisory_rows |-> advisory_rows[k].id],
                            <<>>)
        missing == SelectSeq(expected_hard, LAMBDA oid : ~InList(declared, oid))
        issues ==
            (IF min_obligations > 0 /\ Len(obligations) < min_obligations
             THEN <<<<"DET_MIN_OBLIGATIONS", "">>>> ELSE <<>>)
            \o LoopIssues(obligations, subtask_ids)
            \o [k \in DOMAIN SelectSeq(subtask_ids,
                                       LAMBDA sid : sid \notin covered_sources)
                  |-> <<"DET_SUBTASK_SOURCE", "1">>]
            \o [k \in DOMAIN missing |-> <<"DET_UNCOVERED_MISSING", missing[k]>>]
        det_issues ==
            issues \o (IF obj.status = "ok" /\ hard_uncovered # <<>>
                       THEN <<<<"DET_STATUS_OK_WITH_HARD_UNCOVERED", "">>>>
                       ELSE <<>>)
    IN [status |-> GuardStatus(obj.status, hard_uncovered,
                               advisory_uncovered, det_issues),
        det_issues |-> det_issues,
        hard_uncovered |-> hard_uncovered,
        advisory_uncovered |-> advisory_uncovered]

\* The verdicts the guards are given, with the arguments of the call.
GuardVerdicts ==
    [status : {"ok", "fail"},
     obligations : UNION {[1..n -> GuardObligations] : n \in 0..MaxObligations},
     uncovered_obligation_ids : {<<>>, <<"O1", "O2">>}]
NoGuardResult ==
    [status |-> "", det_issues |-> <<>>, hard_uncovered |-> <<>>,
     advisory_uncovered |-> <<>>]
GuardCalls ==
    [called : {FALSE}, obj : GuardVerdicts,
     subtask_ids : {<<>>, <<"1">>},
     min_obligations : {0, MinObligations},
     security_profile : SecurityProfiles,
     result : {NoGuardResult}]

GuardInit ==
    /\ now = 0
    /\ index = AbsentIndex
    /\ lock = NoLock
    /\ summary = [d \in Dirs |-> NoSummary]
    /\ verdict = [d \in Dirs |-> "absent"]
    /\ mtime = [d \in Dirs |-> 0]
    /\ faults = 0
    /\ ret = NoRet
    /\ procs = <<>>
    /\ hashes = <<>>
    /\ tmp = <<>>
    /\ rounds = <<>>
    /\ guard \in GuardCalls

\* main applies the guards to the verdict it selected or reused.
ApplyGuards ==
    /\ ~guard.called
    /\ guard' = [guard EXCEPT
                   !.called = TRUE,
                   !.result = ApplyDeterministicGuards(
                                 guard.obj, guard.subtask_ids,
                                 guard.min_obligations, guard.security_profile)]
    /\ UNCHANGED <<now, index, lock, summary, verdict, mtime, faults, ret, procs, hashes, tmp, rounds>>

GuardNext == ApplyGuards

GuardSpec == GuardInit /\ [][GuardNext]_vars

\* The obligations of the verdict that are not covered, and those of them
\* that only concern anti-tamper measures.
C28_Uncovered ==
    {i \in DOMAIN guard.obj.obligations : ~guard.obj.obligations[i].covered}
C28_AntiTamperOnly(i) ==
    /\ "tamper" \in guard.obj.obligations[i].terms
    /\ "host" \notin guard.obj.obligations[i].terms
C28_Listed(list, oid) == \E k \in DOMAIN list : list[k] = oid

\* C28: after apply_deterministic_guards the status is ok only if the
\* hard-uncovered list is empty and no deterministic issue was recorded;
\* every obligation with covered = false is in the hard-uncovered list,
\* except that under host-safe an anti-tamper-only one is in the advisory
\* list; the lists hold nothing else, and under strict the advisory list
\* is empty.
C28_GuardsHoldUncovered ==
    guard.called =>
       /\ guard.result.status = "ok" =>
             /\ guard.result.hard_uncovered = <<>>
             /\ guard.result.det_issues = <<>>
       /\ \A i \in C28_Uncovered :
             IF guard.security_profile = "host-safe" /\ C28_AntiTamperOnly(i)
             THEN C28_Listed(guard.result.advisory_uncovered,
                             guard.obj.obligations[i].id)
             ELSE C28_Listed(guard.result.hard_uncovered,
                             guard.obj.obligations[i].id)
       /\ \A k \in DOMAIN guard.result.hard_uncovered :
             \E i \in C28_Uncovered :
                /\ guard.obj.obligations[i].id = guard.result.hard_uncovered[k]
                /\ ~(guard.security_profile = "host-safe" /\ C28_AntiTamperOnly(i))
       /\ \A k \in DOMAIN guard.result.advisory_uncovered :
             \E i \in C28_Uncovered :
                /\ guard.obj.obligations[i].id = guard.result.advisory_uncovered[k]
                /\ guard.security_profile = "host-safe"
                /\ C28_AntiTamperOnly(i)
       /\ guard.security_profile = "strict" =>
             guard.result.advisory_uncovered = <<>>

\* Under strict, a verdict the model called ok with an uncovered
\* anti-tamper-only obligation, declared as uncovered, comes back as fail
\* with the obligation in the hard list.
C28_Witness ==
    /\ guard.called
    /\ guard.security_profile = "strict"
    /\ guard.obj.status = "ok"
    /\ \E i \in C28_Uncovered : C28_AntiTamperOnly(i)
    /\ guard.result.status = "fail"
    /\ guard.result.hard_uncovered # <<>>
\* Under host-safe the same obligation is advisory and the status is ok.
C28_WitnessAdvisory ==
    /\ guard.called
    /\ guard.security_profile = "host-safe"
    /\ guard.obj.status = "fail"
    /\ guard.result.advisory_uncovered # <<>>
    /\ guard.result.status = "ok"

====
